---- MODULE Spec2Model ----
(***************************************************************************)
(* TRN terrain files: the record extractor (trnParser.ts), the generic     *)
(* tree builder (trnTree.ts) and the patch writer of the custom document   *)
(* (TRNDocument in trnEditorProvider.ts).                                  *)
(*                                                                         *)
(* A buffer (Uint8Array) is a sequence of bytes 0..255; the byte at the    *)
(* 0-based position p of buffer d is d[p + 1].  A JavaScript string is the *)
(* sequence of its character codes.                                        *)
(***************************************************************************)
EXTENDS Integers, Sequences, FiniteSets, TLC

Range(seq) == {seq[i] : i \in 1..Len(seq)}
Min(a, b) == IF a < b THEN a ELSE b
Max(a, b) == IF a > b THEN a ELSE b

(***************************************************************************)
(* Tags and literal strings of the source, as character codes.             *)
(***************************************************************************)
FORM == <<70, 79, 82, 77>>
PTAT == <<80, 84, 65, 84>>
DATA == <<68, 65, 84, 65>>
IHDR == <<73, 72, 68, 82>>
BCIR == <<66, 67, 73, 82>>
BREC == <<66, 82, 69, 67>>
BPOL == <<66, 80, 79, 76>>
BPLN == <<66, 80, 76, 78>>
LAYR == <<76, 65, 89, 82>>
StrBoundaryCircle == <<66, 111, 117, 110, 100, 97, 114, 121, 67, 105, 114, 99, 108, 101>>
StrBoundaryRectangle ==
    <<66, 111, 117, 110, 100, 97, 114, 121, 82, 101, 99, 116, 97, 110, 103, 108, 101>>
StrBoundaryPolygon == <<66, 111, 117, 110, 100, 97, 114, 121, 80, 111, 108, 121, 103, 111, 110>>
StrBoundaryPolyline ==
    <<66, 111, 117, 110, 100, 97, 114, 121, 80, 111, 108, 121, 108, 105, 110, 101>>
StrUnknown == <<85, 110, 107, 110, 111, 119, 110>>
StrLayer == <<76, 97, 121, 101, 114>>

(***************************************************************************)
(* JavaScript numbers.  Every number the program handles is a float32      *)
(* value, an unsigned 32-bit integer, or a double handed in by the caller  *)
(* of applyEdit.  A number is a record [k, neg, mag, aux]:                 *)
(*   k = "f": the float32 value with sign bit neg and the remaining 31     *)
(*            bits mag (every NaN pattern is the one NaN);                 *)
(*   k = "d": a double that is no float32 value: it lies strictly between  *)
(*            the float32 values of magnitude bits mag and mag + 1, nearer *)
(*            the lower one (aux = -1), nearer the upper one (aux = 1) or  *)
(*            half way (aux = 0);                                          *)
(*   k = "u": an integer 2^24 <= n < 2^32 that is no float32 value,        *)
(*            n = mag * 65536 + aux.                                       *)
(* Two numbers are the same JavaScript value iff the records are equal     *)
(* (the "d" values used here are no integers).                             *)
(***************************************************************************)
F32(neg, mag) == [k |-> "f", neg |-> neg, mag |-> mag, aux |-> 0]
Zero == F32(FALSE, 0)
NaN == F32(FALSE, 2143289344)
Inf32 == 255 * 2^23
IsNaN(x) == x.k = "f" /\ x.mag > Inf32

\* floor(log2(n)) for 1 <= n < 2^31
Log2(n) == CHOOSE e \in 0..30 : 2^e <= n /\ (e = 30 \/ n < 2^(e + 1))

\* the number whose value is the integer with big-endian bytes b3 b2 b1 b0
NumOfU32(b3, b2, b1, b0) ==
    IF b3 = 0
    THEN LET n == b2 * 65536 + b1 * 256 + b0
         IN  IF n = 0 THEN Zero
             ELSE LET e == Log2(n)
                  IN  F32(FALSE, (e + 127) * 2^23 + (n - 2^e) * 2^(23 - e))
    ELSE LET e == 24 + Log2(b3)
             s == e - 23
             m == b3 * 2^(24 - s) + b2 * 2^(16 - s) + b1 * 2^(8 - s) + (b0 \div 2^s)
         IN  IF b0 % 2^s = 0
             THEN F32(FALSE, (e + 127) * 2^23 + (m - 2^23))
             ELSE [k |-> "u", neg |-> FALSE, mag |-> b3 * 256 + b2, aux |-> b1 * 256 + b0]

NumOfInt(n) == NumOfU32(0, (n \div 65536) % 256, (n \div 256) % 256, n % 256)

\* Math.fround: the float32 value DataView.setFloat32 stores for x
Fround(x) ==
    IF x.k = "f" THEN (IF IsNaN(x) THEN NaN ELSE x)
    ELSE IF x.k = "d"
    THEN F32(x.neg, IF x.aux = 1 \/ (x.aux = 0 /\ x.mag % 2 = 1) THEN x.mag + 1 ELSE x.mag)
    ELSE LET b3 == x.mag \div 256
             b2 == x.mag % 256
             b1 == x.aux \div 256
             b0 == x.aux % 256
             e == 24 + Log2(b3)
             s == e - 23
             m == b3 * 2^(24 - s) + b2 * 2^(16 - s) + b1 * 2^(8 - s) + (b0 \div 2^s)
             r == b0 % 2^s
             half == 2^(s - 1)
             up == r > half \/ (r = half /\ m % 2 = 1)
         IN  F32(FALSE, (e + 127) * 2^23 + ((IF up THEN m + 1 ELSE m) - 2^23))

\* the 4 bytes view.getUint8(0..3) after view.setFloat32(0, x, true)
Float32Bytes(x) ==
    LET f == Fround(x)
    IN  <<f.mag % 256, (f.mag \div 256) % 256, (f.mag \div 65536) % 256,
          (f.mag \div 2^24) + (IF f.neg THEN 128 ELSE 0)>>

\* x / 2 and -x for a float32 value x, computed in double precision
Half(x) ==
    IF x.mag = 0 \/ x.mag >= Inf32 THEN x
    ELSE IF x.mag >= 2^24 THEN F32(x.neg, x.mag - 2^23)
    ELSE IF x.mag % 2 = 0 THEN F32(x.neg, x.mag \div 2)
    ELSE [k |-> "d", neg |-> x.neg, mag |-> x.mag \div 2, aux |-> 0]
Negate(x) == IF IsNaN(x) THEN x ELSE [x EXCEPT !.neg = ~x.neg]

\* a > b on float32 values (every comparison with NaN is false, -0 = +0)
NumGT(a, b) ==
    LET ka == IF a.neg THEN -a.mag ELSE a.mag
        kb == IF b.neg THEN -b.mag ELSE b.mag
    IN  ~IsNaN(a) /\ ~IsNaN(b) /\ ka > kb

\* a === b on numbers
NumStrictEq(a, b) ==
    /\ ~IsNaN(a) /\ ~IsNaN(b)
    /\ \/ a = b
       \/ a.k = "f" /\ b.k = "f" /\ a.mag = 0 /\ b.mag = 0

(***************************************************************************)
(* Chunk Reader primitives of TRNParser.  A read outside the array yields  *)
(* undefined, which the shift, or and setUint8 operators take as 0.        *)
(* Lengths and counts are kept exact below PosCap and are PosCap from      *)
(* there on: PosCap exceeds every position inside a buffer and every size  *)
(* threshold of the source, and the scan loops below stop at the end of    *)
(* the buffer (see scanning), so the cap changes no result.                *)
(***************************************************************************)
PosCap == 2^24

ByteAt(d, p) == IF p >= 0 /\ p < Len(d) THEN d[p + 1] ELSE 0

\* readString / peekString / readStringAt: the string and the cursor after it
readString(d, pos, length) ==
    LET e == IF pos >= Len(d) THEN pos ELSE Min(pos + length, Len(d))
    IN  [s |-> SubSeq(d, pos + 1, e), pos |-> e]

readUint32BE(d, p) ==
    IF ByteAt(d, p) = 0
    THEN ByteAt(d, p + 1) * 65536 + ByteAt(d, p + 2) * 256 + ByteAt(d, p + 3)
    ELSE PosCap

\* readUint32LE as a number (featherType, integer parameters)
readUint32LE(d, p) ==
    NumOfU32(ByteAt(d, p + 3), ByteAt(d, p + 2), ByteAt(d, p + 1), ByteAt(d, p))

\* readUint32LE as a loop count (vertexCount)
readCountLE(d, p) ==
    IF ByteAt(d, p + 3) = 0
    THEN ByteAt(d, p + 2) * 65536 + ByteAt(d, p + 1) * 256 + ByteAt(d, p)
    ELSE PosCap

readFloat32LE(d, p) ==
    LET mag == (ByteAt(d, p + 3) % 128) * 2^24 + ByteAt(d, p + 2) * 65536
               + ByteAt(d, p + 1) * 256 + ByteAt(d, p)
    IN  IF mag > Inf32 THEN NaN ELSE F32(ByteAt(d, p + 3) >= 128, mag)

\* readNullTerminatedString: the string and the cursor after it
readNullTerminatedString(d, pos, maxLength) ==
    LET end == Min(pos + maxLength, Len(d))
        nul == {q \in pos..(end - 1) : d[q + 1] = 0}
        stop == IF nul = {} THEN Max(pos, end)
                ELSE CHOOSE q \in nul : \A q2 \in nul : q <= q2
    IN  [s |-> SubSeq(d, pos + 1, stop), pos |-> IF stop < end THEN stop + 1 ELSE stop]

\* a chunk header read at the cursor: tag, declared length, cursor after both
readHeader(d, pos) ==
    LET t == readString(d, pos, 4)
    IN  [tag |-> t.s, size |-> readUint32BE(d, t.pos), pos |-> t.pos + 4]

(***************************************************************************)
(* scanning(d, pos, end) is the guard `pos < end - 8` of every scan loop,  *)
(* cut off at the end of the buffer: an iteration that starts at or past   *)
(* data.length reads the empty tag and the length 0, takes the `else`      *)
(* branch, emits nothing and moves the cursor forward, and every caller    *)
(* resets the cursor after the loop.                                       *)
(***************************************************************************)
scanning(d, pos, end) == pos < end - 8 /\ pos < Len(d)

(***************************************************************************)
(* Record Extractor (TRNParser).  A boundary record carries every field of *)
(* the four variants; a field the variant does not have is Absent.         *)
(* A vertex list is [count, pts]: count vertices, of which pts are those   *)
(* whose first byte lies inside the buffer; every later vertex is (0, 0).  *)
(***************************************************************************)
Absent == [k |-> "absent", neg |-> FALSE, mag |-> 0, aux |-> 0]
NoVertices == [count |-> 0, pts |-> <<>>]
AbsentVertices == [count |-> -1, pts |-> <<>>]

BoundaryFormTypes == {BCIR, BREC, BPOL, BPLN}
KindOf(formType) ==
    IF formType = BCIR THEN "circle"
    ELSE IF formType = BREC THEN "rectangle"
    ELSE IF formType = BPOL THEN "polygon" ELSE "polyline"

\* the locals of a parseBxxx / parseBxxxInner call; src is the payload offset
\* of the data chunk the geometry was decoded from (-1: none), kept for the
\* round-trip property only
EmptyAcc(name) ==
    [name |-> name, found |-> FALSE, src |-> -1,
     centerX |-> Zero, centerZ |-> Zero, radius |-> Zero,
     x1 |-> Zero, z1 |-> Zero, x2 |-> Zero, z2 |-> Zero,
     vertices |-> NoVertices, width |-> Zero,
     featherType |-> Zero, featherAmount |-> Zero]

\* parseIHDR, called with the cursor at pos
RECURSIVE parseIHDRLoop(_, _, _)
parseIHDRLoop(d, pos, end) ==
    IF ~scanning(d, pos, end) THEN StrUnknown
    ELSE LET h == readHeader(d, pos)
         IN  IF h.tag = FORM
             THEN parseIHDRLoop(d, readString(d, h.pos, 4).pos + h.size - 4, end)
             ELSE IF h.tag = DATA /\ h.size > 4
             THEN readNullTerminatedString(d, h.pos + 4, h.size - 4).s
             ELSE parseIHDRLoop(d, h.pos + h.size, end)
parseIHDR(d, pos, size) == parseIHDRLoop(d, pos, pos + size)

\* the vertex loop: vertexCount pairs of floats from p on
readVertices(d, p, vertexCount) ==
    LET inside == IF p >= Len(d) THEN 0 ELSE Min(vertexCount, (Len(d) - p + 7) \div 8)
    IN  [count |-> vertexCount,
         pts |-> [i \in 1..inside |->
                    [x |-> readFloat32LE(d, p + 8 * (i - 1)),
                     z |-> readFloat32LE(d, p + 8 * (i - 1) + 4)]]]

\* a data chunk of any size is decoded
AnyDataSize(kind) == 0

MinDataSize(kind) ==
    IF kind = "circle" THEN 20
    ELSE IF kind = "rectangle" THEN 24
    ELSE IF kind = "polygon" THEN 12 ELSE 16

\* the `tag === 'DATA'` branch: decode the payload at p when it is large enough
decodeData(d, kind, acc, p, chunkSize) ==
    IF chunkSize < MinDataSize(kind) THEN acc
    ELSE IF kind = "circle"
    THEN [acc EXCEPT !.centerX = readFloat32LE(d, p),
                     !.centerZ = readFloat32LE(d, p + 4),
                     !.radius = readFloat32LE(d, p + 8),
                     !.featherType = readUint32LE(d, p + 12),
                     !.featherAmount = readFloat32LE(d, p + 16),
                     !.found = TRUE, !.src = p]
    ELSE IF kind = "rectangle"
    THEN [acc EXCEPT !.x1 = readFloat32LE(d, p),
                     !.z1 = readFloat32LE(d, p + 4),
                     !.x2 = readFloat32LE(d, p + 8),
                     !.z2 = readFloat32LE(d, p + 12),
                     !.featherType = readUint32LE(d, p + 16),
                     !.featherAmount = readFloat32LE(d, p + 20),
                     !.found = TRUE, !.src = p]
    ELSE LET vertexCount == readCountLE(d, p)
             tail == p + 4 + 8 * vertexCount
         IN  IF kind = "polygon"
             THEN [acc EXCEPT !.vertices = readVertices(d, p + 4, vertexCount),
                              !.featherType = readUint32LE(d, tail),
                              !.featherAmount = readFloat32LE(d, tail + 4),
                              !.found = TRUE, !.src = p]
             ELSE [acc EXCEPT !.vertices = readVertices(d, p + 4, vertexCount),
                              !.featherAmount = readFloat32LE(d, tail + 4),
                              !.width = readFloat32LE(d, tail + 8),
                              !.found = TRUE, !.src = p]

\* the cursor after the reads of decodeData on a data chunk that is decoded
decodeEnd(d, kind, p) ==
    IF kind = "circle" THEN p + 20
    ELSE IF kind = "rectangle" THEN p + 24
    ELSE IF kind = "polygon" THEN p + 4 + 8 * readCountLE(d, p) + 8
    ELSE p + 4 + 8 * readCountLE(d, p) + 12

\* the offset within the data chunk at p at which decodeData reads a field
decodeOffset(d, kind, p, field) ==
    IF kind = "circle"
    THEN (IF field = "centerX" THEN 0
          ELSE IF field = "centerZ" THEN 4
          ELSE IF field = "radius" THEN 8
          ELSE IF field = "featherType" THEN 12 ELSE 16)
    ELSE IF kind = "rectangle"
    THEN (IF field = "x1" THEN 0
          ELSE IF field = "z1" THEN 4
          ELSE IF field = "x2" THEN 8
          ELSE IF field = "z2" THEN 12
          ELSE IF field = "featherType" THEN 16 ELSE 20)
    ELSE LET tail == 4 + 8 * readCountLE(d, p)
         IN  IF field = "featherType" THEN tail
             ELSE IF field = "featherAmount" THEN tail + 4 ELSE tail + 8

\* what a caller takes over from the result of a parseBxxxInner call
mergeInner(kind, acc, inner) ==
    LET named == IF inner.name # <<>> THEN [acc EXCEPT !.name = inner.name] ELSE acc
    IN  IF kind = "circle"
        THEN IF inner.found
             THEN [named EXCEPT !.centerX = inner.centerX, !.centerZ = inner.centerZ,
                                !.radius = inner.radius,
                                !.featherType = inner.featherType,
                                !.featherAmount = inner.featherAmount,
                                !.found = TRUE, !.src = inner.src]
             ELSE named
        ELSE IF kind = "rectangle"
        THEN IF inner.found
             THEN [named EXCEPT !.x1 = inner.x1, !.z1 = inner.z1,
                                !.x2 = inner.x2, !.z2 = inner.z2,
                                !.featherType = inner.featherType,
                                !.featherAmount = inner.featherAmount,
                                !.found = TRUE, !.src = inner.src]
             ELSE named
        ELSE IF kind = "polygon"
        THEN IF inner.vertices.count > 0
             THEN [named EXCEPT !.vertices = inner.vertices,
                                !.featherAmount = inner.featherAmount,
                                !.found = TRUE, !.src = inner.src]
             ELSE named
        ELSE IF inner.vertices.count > 0
             THEN [named EXCEPT !.vertices = inner.vertices, !.width = inner.width,
                                !.featherAmount = inner.featherAmount,
                                !.found = TRUE, !.src = inner.src]
             ELSE named

\* the scan loop shared by parseBCIR, parseBREC, parseBPOL, parseBPLN and their
\* Inner twins: the cursor is at pos, the locals are acc
RECURSIVE parseBoundaryLoop(_, _, _, _, _)
parseBoundaryLoop(d, kind, pos, end, acc) ==
    IF ~scanning(d, pos, end) THEN acc
    ELSE LET h == readHeader(d, pos)
             chunkEnd == h.pos + h.size
         IN  IF h.tag = FORM
             THEN LET ft == readString(d, h.pos, 4)
                  IN  IF ft.s = IHDR
                      THEN parseBoundaryLoop(d, kind, chunkEnd, end,
                              [acc EXCEPT !.name = parseIHDR(d, ft.pos, h.size - 4)])
                      ELSE parseBoundaryLoop(d, kind, chunkEnd, end,
                              mergeInner(kind, acc,
                                  parseBoundaryLoop(d, kind, ft.pos, ft.pos + h.size - 4,
                                                    EmptyAcc(<<>>))))
             ELSE IF h.tag = DATA
             THEN parseBoundaryLoop(d, kind, chunkEnd, end,
                                    decodeData(d, kind, acc, h.pos, h.size))
             ELSE parseBoundaryLoop(d, kind, chunkEnd, end, acc)

\* the record parseBCIR / parseBREC / parseBPOL / parseBPLN returns (with src)
boundaryRecord(kind, acc, layerPath, offset) ==
    LET swapX == kind = "rectangle" /\ NumGT(acc.x1, acc.x2)
        swapZ == kind = "rectangle" /\ NumGT(acc.z1, acc.z2)
        has(kinds, v) == IF kind \in kinds THEN v ELSE Absent
    IN  [type |-> kind, name |-> acc.name,
         centerX |-> has({"circle"}, acc.centerX),
         centerZ |-> has({"circle"}, acc.centerZ),
         radius |-> has({"circle"}, acc.radius),
         x1 |-> has({"rectangle"}, IF swapX THEN acc.x2 ELSE acc.x1),
         z1 |-> has({"rectangle"}, IF swapZ THEN acc.z2 ELSE acc.z1),
         x2 |-> has({"rectangle"}, IF swapX THEN acc.x1 ELSE acc.x2),
         z2 |-> has({"rectangle"}, IF swapZ THEN acc.z1 ELSE acc.z2),
         vertices |-> IF kind \in {"polygon", "polyline"} THEN acc.vertices
                      ELSE AbsentVertices,
         width |-> has({"polyline"}, acc.width),
         featherType |-> IF kind = "polyline" THEN Zero ELSE acc.featherType,
         featherAmount |-> acc.featherAmount,
         layerPath |-> layerPath, offset |-> offset, src |-> acc.src]

PlaceholderName(kind) ==
    IF kind = "circle" THEN StrBoundaryCircle
    ELSE IF kind = "rectangle" THEN StrBoundaryRectangle
    ELSE IF kind = "polygon" THEN StrBoundaryPolygon ELSE StrBoundaryPolyline

\* parseBCIR(size, layerPath, offset) etc., called with the cursor at pos
parseBoundary(d, kind, pos, size, layerPath, offset) ==
    boundaryRecord(kind,
                   parseBoundaryLoop(d, kind, pos, pos + size,
                                     EmptyAcc(PlaceholderName(kind))),
                   layerPath, offset)

\* the inner loop of extractLayerName over the chunks of a FORM IHDR
RECURSIVE layerNameInIHDR(_, _, _)
layerNameInIHDR(d, ihdrPos, ihdrEnd) ==
    IF ~scanning(d, ihdrPos, ihdrEnd) THEN <<>>
    ELSE LET innerTag == readString(d, ihdrPos, 4).s
             innerSize == readUint32BE(d, ihdrPos + 4)
             name == IF innerTag = DATA /\ innerSize > 4
                     THEN readNullTerminatedString(d, ihdrPos + 12,
                                                   Min(64, innerSize - 4)).s
                     ELSE <<>>
         IN  IF name # <<>> THEN name
             ELSE layerNameInIHDR(d, ihdrPos + 8 + innerSize, ihdrEnd)

RECURSIVE extractLayerNameLoop(_, _, _)
extractLayerNameLoop(d, pos, end) ==
    IF ~scanning(d, pos, end) THEN StrLayer
    ELSE LET tag == readString(d, pos, 4).s
             chunkSize == readUint32BE(d, pos + 4)
             name == IF tag = FORM /\ readString(d, pos + 8, 4).s = IHDR
                     THEN layerNameInIHDR(d, pos + 12, pos + 8 + chunkSize)
                     ELSE <<>>
         IN  IF name # <<>> THEN name
             ELSE extractLayerNameLoop(d, pos + 8 + chunkSize, end)
\* no header is looked for
extractNoLayerName(d, start, size) == StrLayer
extractLayerName(d, start, size) == extractLayerNameLoop(d, start, start + size)

\* parseContent: the records pushed, in order
RECURSIVE parseContentLoop(_, _, _, _)
parseContentLoop(d, pos, end, layerPath) ==
    IF ~scanning(d, pos, end) THEN <<>>
    ELSE LET chunkStart == pos
             h == readHeader(d, pos)
             ft == readString(d, h.pos, 4)
             pushed ==
                 IF h.tag # FORM THEN <<>>
                 ELSE IF ft.s \in BoundaryFormTypes
                 THEN <<parseBoundary(d, KindOf(ft.s), ft.pos, h.size - 4,
                                      layerPath, chunkStart)>>
                 ELSE IF ft.s = LAYR
                 THEN parseContentLoop(d, ft.pos, ft.pos + h.size - 4,
                         Append(layerPath, extractLayerName(d, ft.pos, h.size - 4)))
                 ELSE parseContentLoop(d, ft.pos, ft.pos + h.size - 4, layerPath)
         IN  pushed \o parseContentLoop(d, chunkStart + 8 + h.size, end, layerPath)
parseContent(d, start, size, layerPath) ==
    parseContentLoop(d, start, start + size, layerPath)

(***************************************************************************)
(* Global Parameter Decoder (TRNParser.parseMapInfo).                      *)
(***************************************************************************)
getDefaultMapInfo ==
    [terrainFile |-> <<>>, mapSize |-> NumOfInt(16384),
     mapBoundsMin |-> Negate(NumOfInt(8192)), mapBoundsMax |-> NumOfInt(8192),
     chunkWidth |-> NumOfInt(8), tilesPerChunk |-> NumOfInt(2),
     useGlobalWaterTable |-> FALSE, globalWaterTableHeight |-> Zero,
     globalWaterTableShaderSize |-> Zero, waterShaderName |-> <<>>,
     timeCycle |-> Zero,
     floraCollidableMinDistance |-> Zero, floraCollidableMaxDistance |-> Zero,
     floraCollidableTileSize |-> Zero, floraCollidableTileBorder |-> Zero,
     floraCollidableSeed |-> Zero,
     floraNonCollidableMinDistance |-> Zero, floraNonCollidableMaxDistance |-> Zero,
     floraNonCollidableTileSize |-> Zero, floraNonCollidableTileBorder |-> Zero,
     floraNonCollidableSeed |-> Zero,
     radialNearMinDistance |-> Zero, radialNearMaxDistance |-> Zero,
     radialNearTileSize |-> Zero, radialNearTileBorder |-> Zero,
     radialNearSeed |-> Zero,
     radialFarMinDistance |-> Zero, radialFarMaxDistance |-> Zero,
     radialFarTileSize |-> Zero, radialFarTileBorder |-> Zero,
     radialFarSeed |-> Zero]

\* parseMapInfoData(size), called with the cursor at dataStart; size is not used
parseMapInfoData(d, dataStart, size) ==
    LET terrainFile == readNullTerminatedString(d, dataStart, 256)
        p1 == terrainFile.pos
        mapSize == readFloat32LE(d, p1)
        waterShaderName == readNullTerminatedString(d, p1 + 24, 64)
        p2 == waterShaderName.pos
    IN  [terrainFile |-> terrainFile.s, mapSize |-> mapSize,
         mapBoundsMin |-> Half(Negate(mapSize)), mapBoundsMax |-> Half(mapSize),
         chunkWidth |-> readFloat32LE(d, p1 + 4),
         tilesPerChunk |-> readUint32LE(d, p1 + 8),
         useGlobalWaterTable |-> readUint32LE(d, p1 + 12) # Zero,
         globalWaterTableHeight |-> readFloat32LE(d, p1 + 16),
         globalWaterTableShaderSize |-> readFloat32LE(d, p1 + 20),
         waterShaderName |-> waterShaderName.s,
         timeCycle |-> readFloat32LE(d, p2),
         floraCollidableMinDistance |-> readUint32LE(d, p2 + 4),
         floraCollidableMaxDistance |-> readFloat32LE(d, p2 + 8),
         floraCollidableTileSize |-> readFloat32LE(d, p2 + 12),
         floraCollidableTileBorder |-> readFloat32LE(d, p2 + 16),
         floraCollidableSeed |-> readUint32LE(d, p2 + 20),
         floraNonCollidableMinDistance |-> readUint32LE(d, p2 + 24),
         floraNonCollidableMaxDistance |-> readFloat32LE(d, p2 + 28),
         floraNonCollidableTileSize |-> readFloat32LE(d, p2 + 32),
         floraNonCollidableTileBorder |-> readFloat32LE(d, p2 + 36),
         floraNonCollidableSeed |-> readUint32LE(d, p2 + 40),
         radialNearMinDistance |-> readUint32LE(d, p2 + 44),
         radialNearMaxDistance |-> readFloat32LE(d, p2 + 48),
         radialNearTileSize |-> readFloat32LE(d, p2 + 52),
         radialNearTileBorder |-> readFloat32LE(d, p2 + 56),
         radialNearSeed |-> readUint32LE(d, p2 + 60),
         radialFarMinDistance |-> readFloat32LE(d, p2 + 64),
         radialFarMaxDistance |-> readFloat32LE(d, p2 + 68),
         radialFarTileSize |-> readFloat32LE(d, p2 + 72),
         radialFarTileBorder |-> readFloat32LE(d, p2 + 76),
         radialFarSeed |-> readUint32LE(d, p2 + 80)]

\* the cursor after the reads of parseMapInfoData
parseMapInfoDataEnd(d, dataStart) ==
    readNullTerminatedString(d, readNullTerminatedString(d, dataStart, 256).pos + 24,
                             64).pos + 84

parseMapInfo(d) ==
    LET h == readHeader(d, 12)
        dh == readHeader(d, readString(d, h.pos, 4).pos)
    IN  IF h.tag = FORM /\ dh.tag = DATA
        THEN parseMapInfoData(d, dh.pos, dh.size)
        ELSE getDefaultMapInfo

\* parse without the check of the outermost sub-tag
parseAnyForm(d) ==
    LET h == readHeader(d, 0)
        formType == readString(d, h.pos, 4)
    IN  IF h.tag # FORM
        THEN [ok |-> FALSE, boundaries |-> <<>>, mapInfo |-> getDefaultMapInfo]
        ELSE [ok |-> TRUE,
              boundaries |-> parseContent(d, formType.pos, h.size - 4, <<>>),
              mapInfo |-> parseMapInfo(d)]

(***************************************************************************)
(* TRNParser.parse: throws (ok = FALSE) or returns the document.  The      *)
(* records carry src, which is no field of the source's records.           *)
(***************************************************************************)
parse(d) ==
    LET h == readHeader(d, 0)
        formType == readString(d, h.pos, 4)
    IN  IF h.tag # FORM \/ formType.s # PTAT
        THEN [ok |-> FALSE, boundaries |-> <<>>, mapInfo |-> getDefaultMapInfo]
        ELSE [ok |-> TRUE,
              boundaries |-> parseContent(d, formType.pos, h.size - 4, <<>>),
              mapInfo |-> parseMapInfo(d)]

RecordFields ==
    {"type", "name", "centerX", "centerZ", "radius", "x1", "z1", "x2", "z2",
     "vertices", "width", "featherType", "featherAmount", "layerPath", "offset"}
\* the Boundary objects of the source: the records of parse without src
Records(recs) == [i \in 1..Len(recs) |-> [f \in RecordFields |-> recs[i][f]]]

(***************************************************************************)
(* Generic Tree Builder (TRNTreeParser): a node is                         *)
(* [id, type, offset, size, children, form, data]; id n stands for         *)
(* `node_n`, data is the decoded payload bag without the name (a field     *)
(* that is not set is Absent),                                             *)
(* drawn from the counter nodeId when the node is created, and form tells  *)
(* which of parseFORM and parseDataChunk made the node (the source's node  *)
(* does not record it).  The parsing operators yield the node (or the      *)
(* children) and the counter after it.                                     *)
(***************************************************************************)
isValidTag(tag) ==
    Len(tag) = 4 /\ \A i \in 1..4 : tag[i] \in (65..90) \cup (48..57)

NoData ==
    [f \in {"centerX", "centerZ", "radius", "x1", "z1", "x2", "z2", "vertexCount",
            "width", "featherType", "featherAmount"} |-> Absent]

\* extractBoundaryData: the bag of the parent of a data node
extractBoundaryData(d, bag, parentType, dataNode) ==
    LET dataStart == dataNode.offset + 8
        dataSize == dataNode.size - 8
    IN  IF parentType = BCIR /\ dataSize >= 20
        THEN [bag EXCEPT !.centerX = readFloat32LE(d, dataStart),
                         !.centerZ = readFloat32LE(d, dataStart + 4),
                         !.radius = readFloat32LE(d, dataStart + 8),
                         !.featherType = readUint32LE(d, dataStart + 12),
                         !.featherAmount = readFloat32LE(d, dataStart + 16)]
        ELSE IF parentType = BREC /\ dataSize >= 24
        THEN [bag EXCEPT !.x1 = readFloat32LE(d, dataStart),
                         !.z1 = readFloat32LE(d, dataStart + 4),
                         !.x2 = readFloat32LE(d, dataStart + 8),
                         !.z2 = readFloat32LE(d, dataStart + 12),
                         !.featherType = readUint32LE(d, dataStart + 16),
                         !.featherAmount = readFloat32LE(d, dataStart + 20)]
        ELSE IF parentType \in {BPOL, BPLN} /\ dataSize >= 8
        THEN [bag EXCEPT !.vertexCount = readUint32LE(d, dataStart),
                         !.featherAmount = readFloat32LE(d, dataStart + 4),
                         !.width = IF parentType = BPLN /\ dataSize >= 12
                                   THEN readFloat32LE(d, dataStart + 8) ELSE @]
        ELSE bag

\* extractNodeData for each child in turn: the bag of a node of type
\* parentType after the first n children
RECURSIVE extractNodeData(_, _, _, _)
extractNodeData(d, parentType, children, n) ==
    IF n = 0 THEN NoData
    ELSE LET bag == extractNodeData(d, parentType, children, n - 1)
         IN  IF children[n].type = DATA /\ parentType \in BoundaryFormTypes
             THEN extractBoundaryData(d, bag, parentType, children[n])
             ELSE bag

RECURSIVE parseChunk(_, _, _)
RECURSIVE parseFORMChildren(_, _, _, _)
\* the `while (this.pos < contentEnd - 8)` loop of parseFORM: node.children
parseFORMChildren(d, pos, contentEnd, nodeId) ==
    IF ~scanning(d, pos, contentEnd) THEN [children |-> <<>>, nodeId |-> nodeId]
    ELSE IF ~isValidTag(readString(d, pos, 4).s)
    THEN parseFORMChildren(d, pos + 1, contentEnd, nodeId)
    ELSE LET child == parseChunk(d, pos, nodeId)
             rest == parseFORMChildren(d, pos + child.node.size, contentEnd,
                                       child.nodeId)
         IN  [children |-> <<child.node>> \o rest.children, nodeId |-> rest.nodeId]

\* parseChunk with parseFORM and parseDataChunk
parseChunk(d, startOffset, nodeId) ==
    LET h == readHeader(d, startOffset)
        formType == readString(d, h.pos, 4)
        sub == parseFORMChildren(d, formType.pos, startOffset + 8 + h.size,
                                 nodeId + 1)
    IN  IF h.tag = FORM
        THEN [node |-> [id |-> nodeId, type |-> formType.s, offset |-> startOffset,
                        size |-> h.size + 8, children |-> sub.children,
                        form |-> TRUE,
                        data |-> extractNodeData(d, formType.s, sub.children,
                                                 Len(sub.children))],
              nodeId |-> sub.nodeId]
        ELSE [node |-> [id |-> nodeId, type |-> h.tag, offset |-> startOffset,
                        size |-> h.size + 8, children |-> <<>>, form |-> FALSE,
                        data |-> NoData],
              nodeId |-> nodeId + 1]

\* TRNTreeParser.parse: the root
treeParse(d) == parseChunk(d, 0, 0).node

\* the nodes of a tree in pre-order, as <<type, offset, size, depth>>
RECURSIVE flattenNodes(_, _)
RECURSIVE flattenList(_, _)
flattenList(nodes, depth) ==
    IF nodes = <<>> THEN <<>>
    ELSE flattenNodes(Head(nodes), depth) \o flattenList(Tail(nodes), depth)
flattenNodes(node, depth) ==
    <<<<node.type, node.offset, node.size, depth>>>> \o flattenList(node.children, depth + 1)

\* TreeParseResult.boundaries: parseFORM pushes a node of a boundary type
\* when it creates it, before its children
RECURSIVE treeBoundaries(_)
RECURSIVE treeBoundariesIn(_)
treeBoundariesIn(nodes) ==
    IF nodes = <<>> THEN <<>>
    ELSE treeBoundaries(Head(nodes)) \o treeBoundariesIn(Tail(nodes))
treeBoundaries(node) ==
    (IF node.form /\ node.type \in BoundaryFormTypes THEN <<node>> ELSE <<>>)
    \o treeBoundariesIn(node.children)

(***************************************************************************)
(* Layer Hierarchy Index (getLayerHierarchy).  An entry is                 *)
(* [node, boundaryCount, depth, parentId]; the display name of an entry is *)
(* not modelled.  NoParent stands for the parentId left undefined.         *)
(***************************************************************************)
RECURSIVE getBoundariesInLayer(_)
RECURSIVE getBoundariesInLayers(_)
getBoundariesInLayers(nodes) ==
    IF nodes = <<>> THEN <<>>
    ELSE getBoundariesInLayer(Head(nodes)) \o getBoundariesInLayers(Tail(nodes))
getBoundariesInLayer(layerNode) ==
    (IF layerNode.type \in BoundaryFormTypes THEN <<layerNode>> ELSE <<>>)
    \o getBoundariesInLayers(layerNode.children)

NoParent == -1
RECURSIVE traverse(_, _, _)
RECURSIVE traverseChildren(_, _, _)
traverseChildren(nodes, depth, parentId) ==
    IF nodes = <<>> THEN <<>>
    ELSE traverse(Head(nodes), depth, parentId)
         \o traverseChildren(Tail(nodes), depth, parentId)
traverse(node, depth, parentId) ==
    IF node.type = LAYR
    THEN <<[node |-> node, boundaryCount |-> Len(getBoundariesInLayer(node)),
            depth |-> depth, parentId |-> parentId]>>
         \o traverseChildren(node.children, depth + 1, node.id)
    ELSE traverseChildren(node.children, depth, parentId)
\* the walk started one level down
getLayerHierarchyFromOne(root) == traverse(root, 1, NoParent)
getLayerHierarchy(root) == traverse(root, 0, NoParent)

(***************************************************************************)
(* Patch Writer (TRNDocument).  The document has readers of its own:       *)
(* readString always yields `length` characters (code 0 outside the        *)
(* array) and readUint32BE yields the signed 32-bit value of the shifts.   *)
(* Negative lengths are exact; positive ones are capped at PosCap.         *)
(***************************************************************************)
docReadString(d, offset, length) == [i \in 1..length |-> ByteAt(d, offset + i - 1)]

docReadUint32BE(d, offset) ==
    LET b0 == ByteAt(d, offset)
        low == ByteAt(d, offset + 1) * 65536 + ByteAt(d, offset + 2) * 256
               + ByteAt(d, offset + 3)
    IN  IF b0 = 0 THEN low
        ELSE IF b0 < 128 THEN PosCap
        ELSE (b0 - 256) * 2^24 + low

NotFound == -1
\* findDataChunkRecursive does not return: its loop comes back to a position
\* it has left before (Hangs), or it calls itself for a FORM whose call is
\* still running, without end, until the stack is exhausted (Overflows)
Hangs == -2
Overflows == -3

\* the position at which the loop goes on, when it is at pos: below -16 every
\* iteration reads the tag "\0\0\0\0" and the length 0 and adds 8
skipBelowBuffer(pos) == IF pos < -16 THEN -16 + (pos % 8) ELSE pos

\* findDataChunkRecursive(start, end, boundaryType); seen holds the positions
\* the loop of this call has been at, active the FORMs of the running calls
RECURSIVE findDataChunkLoop(_, _, _, _, _)
findDataChunkLoop(d, pos0, end, seen, active) ==
    LET pos == skipBelowBuffer(pos0)
    IN  IF ~(pos < end - 8) \/ pos >= Len(d) THEN NotFound
        ELSE IF pos \in seen THEN Hangs
        ELSE LET tag == docReadString(d, pos, 4)
                 size == docReadUint32BE(d, pos + 4)
                 result == IF tag # FORM THEN NotFound
                           ELSE IF pos \in active THEN Overflows
                           ELSE findDataChunkLoop(d, pos + 12, pos + 8 + size, {},
                                                  active \cup {pos})
             IN  IF tag = DATA THEN pos + 8
                 ELSE IF result # NotFound THEN result
                 ELSE findDataChunkLoop(d, pos + 8 + size, end, seen \cup {pos}, active)
findDataChunkRecursive(d, start, end) == findDataChunkLoop(d, start, end, {}, {})

findDataOffset(d, boundary) ==
    LET formOffset == boundary.offset
        formSize == docReadUint32BE(d, formOffset + 4)
    IN  findDataChunkRecursive(d, formOffset + 12, formOffset + 8 + formSize)

getFieldOffset(type, field) ==
    IF type = "circle"
    THEN (IF field = "centerX" THEN 0
          ELSE IF field = "centerZ" THEN 4
          ELSE IF field = "radius" THEN 8
          ELSE IF field = "featherType" THEN 12
          ELSE IF field = "featherAmount" THEN 16 ELSE -1)
    ELSE IF type = "rectangle"
    THEN (IF field = "x1" THEN 0
          ELSE IF field = "z1" THEN 4
          ELSE IF field = "x2" THEN 8
          ELSE IF field = "z2" THEN 12
          ELSE IF field = "featherType" THEN 16
          ELSE IF field = "featherAmount" THEN 20 ELSE -1)
    ELSE IF type = "polygon"
    THEN (IF field = "featherAmount" THEN 4 ELSE -1)
    ELSE IF type = "polyline"
    THEN (IF field = "featherAmount" THEN 4
          ELSE IF field = "width" THEN 8 ELSE -1)
    ELSE -1

\* writeFloat32LE: a store outside the array is ignored
writeFloat32LE(d, offset, value) ==
    LET bytes == Float32Bytes(value)
    IN  [q \in 1..Len(d) |->
            IF q - 1 >= offset /\ q - 1 < offset + 4 THEN bytes[q - offset] ELSE d[q]]

\* applyEdit on the document doc = [data, boundaries, isDirty]: the value
\* returned ("true", "false", "hang" when the call does not return, "throw"
\* when it ends in a RangeError), the document after it, whether onDidChange
\* fired, and the offset written at
applyEdit(doc, boundaryIndex, field, value) ==
    LET rejected == [ret |-> "false", doc |-> doc, fired |-> FALSE, writeOffset |-> -1]
    IN  IF ~(boundaryIndex \in 0..(Len(doc.boundaries) - 1)) THEN rejected
        ELSE LET boundary == doc.boundaries[boundaryIndex + 1]
                 dataOffset == findDataOffset(doc.data, boundary)
                 fieldOffset == getFieldOffset(boundary.type, field)
             IN  IF dataOffset = Hangs THEN [rejected EXCEPT !.ret = "hang"]
                 ELSE IF dataOffset = Overflows THEN [rejected EXCEPT !.ret = "throw"]
                 ELSE IF dataOffset = NotFound THEN rejected
                 ELSE IF fieldOffset = -1 THEN rejected
                 ELSE [ret |-> "true",
                       doc |-> [data |-> writeFloat32LE(doc.data, dataOffset + fieldOffset,
                                                        value),
                                boundaries |->
                                    [doc.boundaries EXCEPT ![boundaryIndex + 1][field] = value],
                                isDirty |-> TRUE],
                       fired |-> TRUE,
                       writeOffset |-> dataOffset + fieldOffset]

(***************************************************************************)
(* Input files.  An item is a run of sibling chunks with the boundary      *)
(* groups the extractor's walk reaches in it: the kind, the offset of the   *)
(* group within the item and its data chunk: "ok" (of the kind's minimum   *)
(* size at least), "small", "missing", or "cut" (the file ends inside it); *)
(* params tells whether the item starts with the complete global parameter *)
(* chunk.                                                                  *)
(***************************************************************************)
BE32(n) == <<n \div 2^24, (n \div 65536) % 256, (n \div 256) % 256, n % 256>>
U32(n) == <<n % 256, (n \div 256) % 256, (n \div 65536) % 256, n \div 2^24>>
Chunk(tag, payload) == tag \o BE32(Len(payload)) \o payload
Form(formType, body) == FORM \o BE32(Len(body) + 4) \o formType \o body

TagOf(kind) ==
    IF kind = "circle" THEN BCIR
    ELSE IF kind = "rectangle" THEN BREC
    ELSE IF kind = "polygon" THEN BPOL ELSE BPLN

Num(n) == IF n < 0 THEN Negate(NumOfInt(-n)) ELSE NumOfInt(n)
F(n) == Float32Bytes(Num(n))

RECURSIVE VertexBytes(_)
VertexBytes(pts) ==
    IF pts = <<>> THEN <<>>
    ELSE F(Head(pts)[1]) \o F(Head(pts)[2]) \o VertexBytes(Tail(pts))

CircleData(cx, cz, r, ft, fa) == F(cx) \o F(cz) \o F(r) \o U32(ft) \o F(fa)
RectData(x1, z1, x2, z2, ft, fa) ==
    F(x1) \o F(z1) \o F(x2) \o F(z2) \o U32(ft) \o F(fa)
PolygonData(pts, ft, fa) == U32(Len(pts)) \o VertexBytes(pts) \o U32(ft) \o F(fa)
PolylineData(pts, ft, fa, w) ==
    U32(Len(pts)) \o VertexBytes(pts) \o U32(ft) \o F(fa) \o F(w)

\* FORM IHDR > DATA(id, name, NUL)
Header(id, name) == Form(IHDR, Chunk(DATA, U32(id) \o name \o <<0>>))
Version(body) == Form(<<48, 48, 48, 50>>, body)

\* What a file is built from is kept next to its bytes: groups, the boundary
\* groups the extractor walks to (kind, offset, state of the data chunk and
\* the names of the layers around it); params, whether the global parameter
\* chunk is complete; garbage, the offset of a byte put between two chunks
\* (-1 if there is none).  The extractor takes a byte between two chunks and
\* the seven after it for a chunk header, so it walks to no group behind it.
Plain(bytes) == [bytes |-> bytes, groups |-> <<>>, params |-> FALSE, garbage |-> -1]
Group(kind, body, quality) ==
    [bytes |-> Form(TagOf(kind), body),
     groups |-> <<[kind |-> kind, offset |-> 0, data |-> quality, path |-> <<>>]>>,
     params |-> FALSE, garbage |-> -1]
Garbage(byte) == [Plain(<<byte>>) EXCEPT !.garbage = 0]

Shift(groups, by) ==
    [i \in 1..Len(groups) |-> [groups[i] EXCEPT !.offset = @ + by]]
\* the one element of a set: Only({e(x) : x \in {v}}) is e(v) with v taken once
Only(S) == CHOOSE x \in S : TRUE
\* an item followed by the items of rest
Join(first, rest) ==
    [bytes |-> first.bytes \o rest.bytes,
     groups |-> IF first.garbage # -1 THEN first.groups
                ELSE first.groups \o Shift(rest.groups, Len(first.bytes)),
     params |-> first.params,
     garbage |-> IF first.garbage # -1 THEN first.garbage
                 ELSE IF rest.garbage # -1
                 THEN rest.garbage + Len(first.bytes) ELSE -1]
RECURSIVE ItemsOf(_)
ItemsOf(items) ==
    IF items = <<>> THEN Plain(<<>>)
    ELSE Only({Join(Head(items), rest) : rest \in {ItemsOf(Tail(items))}})
Items(items) == Only({ItemsOf(all) : all \in {items}})
\* the group FORM formType around a prefix and items
Wrap(formType, prefix, all) ==
    [bytes |-> Form(formType, prefix \o all.bytes),
     groups |-> Shift(all.groups, 12 + Len(prefix)),
     params |-> all.params,
     garbage |-> IF all.garbage = -1 THEN -1 ELSE all.garbage + 12 + Len(prefix)]
In(formType, prefix, items) ==
    Only({Wrap(formType, prefix, all) : all \in {Items(items)}})
File(items) == In(PTAT, <<>>, items)
Truncated(file, n) ==
    [file EXCEPT !.bytes = SubSeq(file.bytes, 1, Len(file.bytes) - n)]
\* a layer group: its header, if any, and its items
Inside(name, in) ==
    [in EXCEPT !.groups =
        [i \in 1..Len(in.groups) |-> [in.groups[i] EXCEPT !.path = <<name>> \o @]]]
Layer(name, prefix, items) ==
    Only({Inside(name, in) : in \in {In(LAYR, prefix, items)}})
Named(id, name, items) == Layer(name, Header(id, name), items)
Unnamed(items) == Layer(StrLayer, <<>>, items)

NameA == <<65>>
NameZone == <<90, 111, 110, 101>>
JUNK == <<74, 85, 78, 75>>
Circle1 == CircleData(10, -50, 5, 1, 2)
Circle2 == CircleData(7, 8, 9, 0, 3)
Rect1 == RectData(100, 3, -50, 8, 0, 2)
Rect2 == RectData(1, 2, 30, 40, 2, 1)
Polygon1 == PolygonData(<<<<1, 2>>, <<3, 4>>, <<5, 6>>>>, 1, 7)
Polyline1 == PolylineData(<<<<1, 2>>, <<3, 4>>>>, 0, 7, 9)

\* the global parameter chunk, complete: "t", 16384, 8, 2, 1, 3, 4, "w", 5, ...
MapData ==
    <<116, 0>> \o F(16384) \o F(8) \o U32(2) \o U32(1) \o F(3) \o F(4)
    \o <<119, 0>> \o F(5)
    \o U32(1) \o F(2) \o F(3) \o F(4) \o U32(5)
    \o U32(6) \o F(7) \o F(8) \o F(9) \o U32(10)
    \o U32(11) \o F(12) \o F(13) \o F(14) \o U32(15)
    \o F(16) \o F(17) \o F(18) \o F(19) \o U32(20)
Params(payload) ==
    [Plain(Form(<<48, 48, 49, 52>>, Chunk(DATA, payload)))
        EXCEPT !.params = payload = MapData]

Files ==
    << File(<<>>),
       File(<<Group("circle", Chunk(DATA, Circle1), "ok")>>),
       File(<<Group("circle", Header(1, NameZone) \o Chunk(DATA, Circle1), "ok")>>),
       File(<<Group("circle", Header(1, NameA) \o Chunk(DATA, Circle1), "ok")>>),
       File(<<Group("circle", Version(Header(1, NameZone) \o Chunk(DATA, Circle1)),
                    "ok")>>),
       File(<<Group("circle", Chunk(DATA, SubSeq(Circle1, 1, 10)), "small")>>),
       File(<<Group("circle", Header(1, NameZone), "missing"),
              Group("rectangle", Chunk(DATA, Rect2), "ok")>>),
       File(<<Group("circle", Chunk(DATA, SubSeq(Circle1, 1, 4))
                              \o Chunk(DATA, Circle1), "ok")>>),
       File(<<Group("rectangle", Chunk(DATA, Rect1), "ok")>>),
       File(<<Group("rectangle", Version(Chunk(DATA, Rect2)), "ok")>>),
       File(<<Group("rectangle", Chunk(DATA, SubSeq(Rect2, 1, 20)), "small"),
              Group("circle", Chunk(DATA, Circle1), "ok")>>),
       File(<<Group("polygon", Chunk(DATA, Polygon1), "ok")>>),
       File(<<Group("polygon", Header(2, NameZone) \o Chunk(DATA, Polygon1), "ok")>>),
       File(<<Group("polygon", Chunk(DATA, SubSeq(Polygon1, 1, 8)), "small")>>),
       File(<<Group("polyline", Chunk(DATA, Polyline1), "ok")>>),
       File(<<Group("polyline", Version(Chunk(DATA, Polyline1)), "ok")>>),
       File(<<Group("polyline", <<>>, "missing"),
              Group("polygon", Chunk(DATA, Polygon1), "ok")>>),
       File(<<Named(3, NameZone,
                    <<Group("circle", Chunk(DATA, Circle1), "ok"),
                      Named(4, NameA,
                            <<Group("rectangle", Chunk(DATA, Rect2), "ok")>>)>>)>>),
       File(<<Params(MapData), Group("circle", Chunk(DATA, Circle1), "ok")>>),
       File(<<Params(SubSeq(MapData, 1, 10)),
              Group("rectangle", Chunk(DATA, Rect2), "ok")>>),
       File(<<Params(<<>>)>>),
       File(<<Plain(Form(<<48, 48, 49, 52>>, Chunk(JUNK, MapData)))>>),
       File(<<Group("circle", JUNK \o <<255, 255, 255, 248>> \o <<0>>, "missing")>>),
       File(<<Group("circle", Chunk(JUNK, <<1, 2>>) \o Chunk(DATA, Circle1), "ok"),
              Plain(Chunk(JUNK, <<>>))>>),
       Truncated(File(<<Group("circle", Chunk(DATA, Circle1), "ok"),
                        Group("rectangle", Chunk(DATA, Rect2), "cut")>>), 6),
       File(<<Plain(JUNK \o BE32(4000) \o <<1, 2, 3>>
                    \o Form(BCIR, Chunk(DATA, Circle1)))>>),
       Plain(In(JUNK, <<>>, <<Group("circle", Chunk(DATA, Circle1), "ok")>>).bytes),
       Plain(JUNK \o BE32(4) \o PTAT),
       Plain(FORM \o <<0>>),
       Plain(<<>>),
       File(<<Group("circle", Chunk(DATA, Circle1), "ok"), Garbage(0),
              Group("rectangle", Chunk(DATA, Rect2), "ok"),
              Unnamed(<<Group("polygon", Chunk(DATA, Polygon1), "ok")>>)>>),
       File(<<Group("circle", Chunk(DATA, Circle1), "ok"), Garbage(65),
              Group("rectangle", Chunk(DATA, Rect2), "ok"),
              Unnamed(<<Group("polygon", Chunk(DATA, Polygon1), "ok")>>)>>),
       File(<<Group("circle", Header(1, NameZone) \o Chunk(DATA, Circle1)
                              \o Header(2, NameA) \o Chunk(DATA, Circle2), "ok")>>),
       File(<<Group("polygon", Chunk(DATA, SubSeq(Polygon1, 1, 20)), "short"),
              Group("circle", Chunk(DATA, Circle1), "ok")>>),
       File(<<Named(1, NameA,
                    <<Group("circle", Chunk(DATA, Circle1), "ok"),
                      Named(2, NameZone,
                            <<Group("rectangle", Chunk(DATA, Rect2), "ok"),
                              Group("polygon", Chunk(DATA, Polygon1), "ok")>>)>>),
              Unnamed(<<Layer(StrLayer, Form(IHDR, Chunk(DATA, U32(7))),
                              <<Group("rectangle", Header(5, NameA)
                                          \o Chunk(DATA, Rect2), "ok")>>)>>),
              In(<<48, 48, 48, 50>>, <<>>,
                 <<Named(3, NameZone,
                         <<Group("circle", Version(Chunk(DATA, Circle1)), "ok")>>)>>)>>) >>

(***************************************************************************)
(* The custom document and its editor.                                     *)
(*   phase       "closed" (the file is not opened yet), "open", "failed"   *)
(*               (the constructor threw), "stuck" (a call did not return)  *)
(*   disk        the file: its bytes and what it was built from            *)
(*   data, boundaries, tree, mapInfo, isDirty   the fields of TRNDocument  *)
(*   undoStack, redoStack   the edits handleBoundaryEdit handed to the     *)
(*               host, which runs their undo and redo callbacks; an entry  *)
(*               also records the document before and after the edit       *)
(*   edits       the number of edits asked for so far                      *)
(*   last        the last call: its arguments, the value returned, whether *)
(*               onDidChange fired, the offset written at, and the         *)
(*               document before it                                        *)
(*   wsData      _wsData: <<>> (null) or the one WSDocument loaded         *)
(*   isEditable  _isEditable: the uri lies in the working folder           *)
(*   saving      the buffers handed to workspace.fs.writeFile by the       *)
(*               saveCustomDocument calls that await their write           *)
(***************************************************************************)
VARIABLES phase, disk, data, boundaries, tree, mapInfo, isDirty,
          undoStack, redoStack, edits, last, wsData, isEditable, saving

vars == <<phase, disk, data, boundaries, tree, mapInfo, isDirty,
          undoStack, redoStack, edits, last, wsData, isEditable, saving>>

MaxEdits == 1

Tenth == [k |-> "d", neg |-> FALSE, mag |-> 1036831948, aux |-> 1]
EditValues == {Num(200), Tenth}
MessageValues == EditValues \cup {NaN}
EditFields ==
    {"centerX", "centerZ", "radius", "x1", "z1", "x2", "z2", "width",
     "featherType", "featherAmount", "name", "vertices"}
NumberFields == EditFields \ {"name", "vertices"}

NoTree ==
    [id |-> 0, type |-> <<>>, offset |-> 0, size |-> 0, children |-> <<>>,
     form |-> FALSE, data |-> NoData]
Document == [data |-> data, boundaries |-> boundaries, isDirty |-> isDirty]
NoCall ==
    [op |-> "none", ret |-> "none", boundaryIndex |-> 0, field |-> "", value |-> Zero,
     fired |-> FALSE, writeOffset |-> -1, before |-> Document]
Call(op, r, boundaryIndex, field, value) ==
    [op |-> op, ret |-> r.ret, boundaryIndex |-> boundaryIndex, field |-> field,
     value |-> value, fired |-> r.fired, writeOffset |-> r.writeOffset,
     before |-> Document]

\* no document is built yet
Closed ==
    /\ phase = "closed"
    /\ data = <<>>
    /\ boundaries = <<>>
    /\ tree = NoTree
    /\ mapInfo = getDefaultMapInfo
    /\ isDirty = FALSE
    /\ undoStack = <<>>
    /\ redoStack = <<>>
    /\ edits = 0
    /\ last = NoCall
    /\ wsData = <<>>
    /\ saving = <<>>

Init ==
    /\ \E files \in {Files} : disk \in Range(files)
    /\ isEditable = TRUE
    /\ Closed

\* new TRNDocument(uri, bytes): the constructor copies the bytes and parses
Construct(bytes) ==
    LET doc == parse(bytes)
    IN  IF doc.ok
        THEN /\ phase' = "open"
             /\ data' = bytes
             /\ boundaries' = Records(doc.boundaries)
             /\ mapInfo' = doc.mapInfo
             /\ tree' = treeParse(bytes)
        ELSE /\ phase' = "failed"
             /\ UNCHANGED <<data, boundaries, mapInfo, tree>>

\* openCustomDocument
Open ==
    /\ phase = "closed"
    /\ Construct(disk.bytes)
    /\ UNCHANGED <<disk, isDirty, undoStack, redoStack, edits, last, wsData, isEditable, saving>>

\* openCustomDocument of a file that has been cut off after n bytes; groups
\* and params describe whole files only and are left empty
OpenTruncated(n) ==
    /\ phase = "closed"
    /\ disk' = Plain(SubSeq(disk.bytes, 1, n))
    /\ Construct(disk'.bytes)
    /\ UNCHANGED <<isDirty, undoStack, redoStack, edits, last, wsData, isEditable, saving>>

\* the effect of a call of applyEdit with result r on the document
Applied(r) ==
    /\ data' = r.doc.data
    /\ boundaries' = r.doc.boundaries
    /\ isDirty' = r.doc.isDirty
    /\ phase' = IF r.ret \in {"hang", "throw"} THEN "stuck" ELSE phase

\* document.applyEdit(boundaryIndex, field, value)
ApplyEdit(boundaryIndex, field, value) ==
    /\ phase = "open"
    /\ edits < MaxEdits
    /\ LET r == applyEdit(Document, boundaryIndex, field, value)
       IN  /\ Applied(r)
           /\ edits' = edits + 1
           /\ last' = Call("applyEdit", r, boundaryIndex, field, value)
    /\ UNCHANGED <<disk, tree, mapInfo, undoStack, redoStack, wsData, isEditable, saving>>

\* the message {type: 'editBoundary', boundaryIndex, field, value}, value
\* being what parseFloat makes of message.value
HandleBoundaryEdit(boundaryIndex, field, newValue) ==
    /\ phase = "open"
    /\ edits < MaxEdits
    /\ boundaryIndex \in 0..(Len(boundaries) - 1)
    /\ LET oldValue == boundaries[boundaryIndex + 1][field]
       IN  /\ ~IsNaN(newValue)
           /\ ~(field \in NumberFields /\ NumStrictEq(oldValue, newValue))
           /\ LET r == applyEdit(Document, boundaryIndex, field, newValue)
              IN  /\ Applied(r)
                  /\ edits' = edits + 1
                  /\ last' = Call("handleBoundaryEdit", r, boundaryIndex, field, newValue)
                  /\ IF r.ret = "true"
                     THEN /\ undoStack' = Append(undoStack,
                                 [boundaryIndex |-> boundaryIndex, field |-> field,
                                  oldValue |-> oldValue, newValue |-> newValue,
                                  before |-> Document, after |-> r.doc])
                          /\ redoStack' = <<>>
                     ELSE UNCHANGED <<undoStack, redoStack>>
    /\ UNCHANGED <<disk, tree, mapInfo, wsData, isEditable, saving>>

\* the host runs the undo callback of the newest edit
Undo ==
    /\ phase = "open"
    /\ undoStack # <<>>
    /\ LET e == undoStack[Len(undoStack)]
           r == applyEdit(Document, e.boundaryIndex, e.field, e.oldValue)
       IN  /\ Applied(r)
           /\ last' = Call("undo", r, e.boundaryIndex, e.field, e.oldValue)
           /\ undoStack' = SubSeq(undoStack, 1, Len(undoStack) - 1)
           /\ redoStack' = Append(redoStack, e)
    /\ UNCHANGED <<disk, tree, mapInfo, edits, wsData, isEditable, saving>>

\* the host runs the redo callback of the edit undone last
Redo ==
    /\ phase = "open"
    /\ redoStack # <<>>
    /\ LET e == redoStack[Len(redoStack)]
           r == applyEdit(Document, e.boundaryIndex, e.field, e.newValue)
       IN  /\ Applied(r)
           /\ last' = Call("redo", r, e.boundaryIndex, e.field, e.newValue)
           /\ redoStack' = SubSeq(redoStack, 1, Len(redoStack) - 1)
           /\ undoStack' = Append(undoStack, e)
    /\ UNCHANGED <<disk, tree, mapInfo, edits, wsData, isEditable, saving>>

Next ==
    \/ Open
    \/ \E i \in 0..Len(boundaries), f \in EditFields, v \in EditValues : ApplyEdit(i, f, v)
    \/ \E i \in 0..Len(boundaries), f \in EditFields, v \in MessageValues :
          HandleBoundaryEdit(i, f, v)
    \/ Undo
    \/ Redo

Spec == Init /\ [][Next]_vars

\* opening every file cut off after any number of bytes
NextPrefixes == \E n \in 0..Len(disk.bytes) : OpenTruncated(n)
SpecPrefixes == Init /\ [][NextPrefixes]_vars

(***************************************************************************)
(* Properties.                                                             *)
(***************************************************************************)
Opened == phase = "open" /\ last.op = "none"
Edited == last.ret = "true"
Reparsed(d) == Records(parse(d).boundaries)
\* the records of the file opened, with the offsets decoded from (src)
Extracted == parse(disk.bytes).boundaries
Shape(d) == flattenNodes(treeParse(d), 0)

\* a <= b on numbers read from a file or taken from EditValues
Key(a) == <<IF a.neg THEN -a.mag ELSE a.mag,
            IF a.k = "d" THEN (IF a.neg THEN -1 ELSE 1) ELSE 0>>
LessOrEqual(a, b) ==
    /\ ~IsNaN(a) /\ ~IsNaN(b)
    /\ \/ Key(a)[1] < Key(b)[1]
       \/ Key(a)[1] = Key(b)[1] /\ Key(a)[2] <= Key(b)[2]

\* C1: whenever applyEdit has succeeded on an open document, its boundary
\* records equal the records TRNParser.parse extracts from its buffer.
C1_WriteThroughMirror ==
    (phase = "open" /\ Edited) => boundaries = Reparsed(data)

\* C2: for every record parse produces, findDataOffset finds the payload of
\* the data chunk the record's geometry was decoded from, and applyEdit with
\* the value a field already has changes no decoded field of any record.
C2_RoundTripOffset ==
    Opened =>
        \A i \in 1..Len(boundaries) :
            Extracted[i].src # -1 =>
                /\ findDataOffset(data, boundaries[i]) = Extracted[i].src
                /\ \A f \in NumberFields :
                      getFieldOffset(boundaries[i].type, f) # -1 =>
                          Reparsed(applyEdit(Document, i - 1, f, boundaries[i][f]).doc.data)
                              = boundaries

\* the call of applyEdit in last names no record, names a field outside the
\* record type's offset table, or a record in which no data chunk is found
Rejectable ==
    LET b == last.before.boundaries
        i == last.boundaryIndex
    IN  \/ ~(i \in 0..(Len(b) - 1))
        \/ getFieldOffset(b[i + 1].type, last.field) = -1
        \/ findDataOffset(last.before.data, b[i + 1]) = NotFound

\* C3: a call of applyEdit that names no record, a field outside the offset
\* table or a record without a data chunk returns false, fires no event and
\* leaves buffer, records and modified flag as they were.
C3_EditRejection ==
    (last.op = "applyEdit" /\ Rejectable) =>
        /\ last.ret = "false"
        /\ ~last.fired
        /\ Document = last.before

\* C4: when applyEdit returns true the buffer has changed at most at the 4
\* positions from dataOffset + fieldOffset, which are all inside the buffer
\* and hold the little-endian float32 of the value; the length is unchanged
\* and the record's field is the value.
C4_PatchEffect ==
    Edited =>
        LET w == last.writeOffset
        IN  /\ Len(data) = Len(last.before.data)
            /\ \A p \in 1..Len(data) :
                  data[p] # last.before.data[p] => p - 1 \in w..(w + 3)
            /\ w >= 0 /\ w + 4 <= Len(data)
            /\ \A k \in 1..4 : ByteAt(data, w + k - 1) = Float32Bytes(last.value)[k]
            /\ boundaries[last.boundaryIndex + 1][last.field] = last.value

\* C5: the 4 bytes a successful applyEdit writes lie in the payload of the
\* data chunk the edited record's geometry was decoded from, and the tree
\* built from the buffer has the node types, offsets and sizes it had when
\* the file was opened.
C5_PatchConfinement ==
    (phase = "open" /\ Edited) =>
        LET w == last.writeOffset
            src == Extracted[last.boundaryIndex + 1].src
        IN  /\ src # -1
            /\ src <= w
            /\ w + 4 <= src + readUint32BE(disk.bytes, src - 4)
            /\ Shape(data) = Shape(disk.bytes)

\* C6: the undo callback of an accepted edit restores the buffer and the
\* records to what they were before the edit, and the redo callback after
\* it brings back the buffer and the records the edit produced.
C6_UndoRedo ==
    /\ last.op = "undo" =>
          LET e == redoStack[Len(redoStack)]
          IN  data = e.before.data /\ boundaries = e.before.boundaries
    /\ last.op = "redo" =>
          LET e == undoStack[Len(undoStack)]
          IN  data = e.after.data /\ boundaries = e.after.boundaries

\* the first 4 bytes are 'FORM' and bytes 8..11 are 'PTAT'
TopLevelFormat(d) ==
    Len(d) >= 12 /\ SubSeq(d, 1, 4) = FORM /\ SubSeq(d, 9, 12) = PTAT

ZeroGeometry(r) ==
    IF r.type = "circle"
    THEN r.centerX = Zero /\ r.centerZ = Zero /\ r.radius = Zero
    ELSE IF r.type = "rectangle"
    THEN r.x1 = Zero /\ r.z1 = Zero /\ r.x2 = Zero /\ r.z2 = Zero
    ELSE IF r.type = "polygon"
    THEN r.vertices = NoVertices
    ELSE r.vertices = NoVertices /\ r.width = Zero

\* C8: the records of an opened file are, in order, one for each boundary
\* group of the file, also for the groups that follow a group whose data
\* chunk is missing or too small, and the record of such a group has zero
\* geometry.
C8_MalformedBoundary ==
    Opened =>
        /\ Len(boundaries) = Len(disk.groups)
        /\ \A i \in 1..Len(boundaries) :
              /\ boundaries[i].type = disk.groups[i].kind
              /\ boundaries[i].offset = disk.groups[i].offset
              /\ disk.groups[i].data \in {"missing", "small"} => ZeroGeometry(boundaries[i])
              /\ disk.groups[i].data = "ok" => ~ZeroGeometry(boundaries[i])

\* a file is open whose first group has a data chunk below the minimum size
\* and is followed by another group
C8_Witness ==
    /\ Opened
    /\ Len(disk.groups) > 1
    /\ disk.groups[1].data = "small"
    /\ ZeroGeometry(boundaries[1])
    /\ ~ZeroGeometry(boundaries[2])

\* C9: every rectangle record of an open document has x1 <= x2 and z1 <= z2.
C9_RectangleNormalized ==
    phase = "open" =>
        \A i \in 1..Len(boundaries) :
            boundaries[i].type = "rectangle" =>
                /\ LessOrEqual(boundaries[i].x1, boundaries[i].x2)
                /\ LessOrEqual(boundaries[i].z1, boundaries[i].z2)

\* C10: a file that does not start with the complete global parameter chunk
\* opens with the default parameters.
C10_DefaultsFallback ==
    (Opened /\ ~disk.params) => mapInfo = getDefaultMapInfo

\* C11: for every file the parser accepts, the records of TRNParser.parse and
\* the boundary nodes of the tree (tree.boundaries, in pre-order) are equally
\* many, and the i-th record has the type and the offset of the i-th node.
C11_RecordsMatchTree ==
    phase = "open" =>
        LET nodes == treeBoundaries(tree)
        IN  /\ Len(boundaries) = Len(nodes)
            /\ \A i \in 1..Len(boundaries) :
                  /\ boundaries[i].type = KindOf(nodes[i].type)
                  /\ boundaries[i].offset = nodes[i].offset

\* The chunks of a container by the format's definition: a chunk is a tag, a
\* big-endian length and that many payload bytes, and the payload of a FORM
\* is a sub-tag followed by chunks.  ChunksIn lists <<type, offset, size>> of
\* the chunks laid out from pos to end, nested ones included, in file order;
\* WellFormed says that chunks tile the bytes from pos to end exactly.
RECURSIVE ChunksIn(_, _, _)
ChunksIn(d, pos, end) ==
    IF pos + 8 > end THEN <<>>
    ELSE LET h == readHeader(d, pos)
             isForm == h.tag = FORM
         IN  <<<<IF isForm THEN readString(d, pos + 8, 4).s ELSE h.tag,
                 pos, 8 + h.size>>>>
             \o (IF isForm THEN ChunksIn(d, pos + 12, pos + 8 + h.size) ELSE <<>>)
             \o ChunksIn(d, pos + 8 + h.size, end)
RECURSIVE WellFormed(_, _, _)
WellFormed(d, pos, end) ==
    \/ pos = end
    \/ /\ pos + 8 <= end
       /\ LET h == readHeader(d, pos)
          IN  /\ pos + 8 + h.size <= end
              /\ h.tag = FORM =>
                    h.size >= 4 /\ WellFormed(d, pos + 12, pos + 8 + h.size)
              /\ WellFormed(d, pos + 8 + h.size, end)
\* the nodes of the tree as <<type, offset, size>>, in pre-order
Nodes(root) ==
    LET flat == flattenNodes(root, 0)
    IN  [i \in 1..Len(flat) |-> <<flat[i][1], flat[i][2], flat[i][3]>>]

\* C12: when one byte of any value stands between two sibling chunks of the
\* outermost group, the tree of the file has a node with the right type,
\* offset and size for every chunk behind that byte.
C12_TagResynchronization ==
    (phase = "open" /\ disk.garbage # -1) =>
        Range(ChunksIn(disk.bytes, disk.garbage + 1, Len(disk.bytes)))
            \subseteq Range(Nodes(tree))

\* the nodes of a subtree, and the layer nodes a node lies in
RECURSIVE Subtree(_)
Subtree(node) ==
    {node} \cup UNION {Subtree(node.children[i]) : i \in 1..Len(node.children)}
Enclosing(n) ==
    {m \in Subtree(tree) : m.type = LAYR /\ m # n /\ n \in Subtree(m)}
\* boundary groups owned by a layer itself, and with its nested layers
DirectCount(layer) ==
    Cardinality({n \in Subtree(layer) :
                    /\ n.type \in BoundaryFormTypes
                    /\ Enclosing(n) \cap Subtree(layer) = {layer}})
TotalCount(layer) ==
    Cardinality({n \in Subtree(layer) : n.type \in BoundaryFormTypes})
\* the counts an entry of the layer list holds
Counts(entry) == {entry.boundaryCount}

\* C13: every entry of the layer list reports the number of boundaries its
\* layer owns directly and the total with its nested layers, and the depth
\* of a nested layer is the depth of its parent layer plus one.
C13_LayerCounts ==
    phase = "open" =>
        LET layers == getLayerHierarchy(tree)
        IN  \A i \in 1..Len(layers) :
              /\ DirectCount(layers[i].node) \in Counts(layers[i])
              /\ TotalCount(layers[i].node) \in Counts(layers[i])
              /\ \A j \in 1..Len(layers) :
                    layers[i].parentId = layers[j].node.id =>
                        layers[i].depth = layers[j].depth + 1

\* the entries behind entry i up to the first one that is not deeper
Run(layers, i) ==
    {j \in (i + 1)..Len(layers) :
        \A k \in (i + 1)..j : layers[k].depth > layers[i].depth}

\* C14: the layer list is in the pre-order of the tree and root layers have
\* depth 0; the entries of the layers nested in the layer of entry i are
\* the run of entries behind i with a greater depth; parentId is the id of
\* the nearest layer node around the layer, and absent for a root layer.
C14_LayerOrder ==
    phase = "open" =>
        LET layers == getLayerHierarchy(tree)
            flat == SelectSeq(Nodes(tree), LAMBDA n : n[1] = LAYR)
        IN  /\ [i \in 1..Len(layers) |-> layers[i].node.offset]
                  = [i \in 1..Len(flat) |-> flat[i][2]]
            /\ \A i \in 1..Len(layers) :
                  LET around == Enclosing(layers[i].node)
                  IN  /\ around = {} =>
                            layers[i].depth = 0 /\ layers[i].parentId = NoParent
                      /\ around # {} =>
                            \E p \in around :
                                /\ \A q \in around : p \in Subtree(q)
                                /\ layers[i].parentId = p.id
                      /\ {j \in 1..Len(layers) :
                              layers[i].node \in Enclosing(layers[j].node)}
                            = Run(layers, i)

\* a file is open with a layer in a layer, a layer behind them at depth 0,
\* and a layer inside a group that is no layer
C14_Witness ==
    /\ phase = "open"
    /\ LET layers == getLayerHierarchy(tree)
       IN  /\ \E i \in 1..Len(layers) :
                 /\ Run(layers, i) # {}
                 /\ \E j \in (i + 1)..Len(layers) :
                       j \notin Run(layers, i) /\ layers[j].depth = 0
           /\ \E i \in 1..Len(layers) :
                 /\ layers[i].depth = 0
                 /\ \E n \in Subtree(tree) \ {tree} :
                       n.type # LAYR /\ layers[i].node \in Subtree(n)

\* C15: in the tree of any file, the children of a node lie one behind the
\* other without overlap, in the order of their offsets, and each of them
\* lies within the payload of the node, from offset + 12 to offset + size.
C15_TreeContainment ==
    phase = "open" =>
        \A n \in Subtree(tree) :
            /\ \A i \in 1..Len(n.children) :
                  /\ n.offset + 12 <= n.children[i].offset
                  /\ n.children[i].offset + n.children[i].size <= n.offset + n.size
            /\ \A i \in 1..(Len(n.children) - 1) :
                  n.children[i].offset + n.children[i].size
                      <= n.children[i + 1].offset

\* a file in which chunks tile the whole buffer
WellFormedFile(d) == Len(d) >= 12 /\ WellFormed(d, 0, Len(d))

\* C16: the tree of a well-formed file has exactly one node for every chunk
\* of the file, with the chunk's offset and with size 8 + declared length,
\* also for chunks with an empty payload and for the last chunk of a group.
C16_LosslessTree ==
    (phase = "open" /\ WellFormedFile(disk.bytes)) =>
        Nodes(tree) = ChunksIn(disk.bytes, 0, Len(disk.bytes))

\* C17: the layerPath of every record is the list of the names of the layer
\* groups its boundary group lies in, from the outermost to the innermost;
\* groups with another sub-tag add nothing, and a layer whose header gives
\* no name adds the placeholder name.
C17_LayerPath ==
    (phase = "open" /\ Len(boundaries) = Len(disk.groups)) =>
        \A i \in 1..Len(boundaries) : boundaries[i].layerPath = disk.groups[i].path

\* a file is open with a record in two named layers, a record in a layer
\* without a header inside a layer without a header name, and a record in
\* a layer that lies in a group with the sub-tag 0002
C17_Witness ==
    /\ phase = "open"
    /\ Len(boundaries) = Len(disk.groups)
    /\ \E i \in 1..Len(boundaries) : boundaries[i].layerPath = <<NameA, NameZone>>
    /\ \E i \in 1..Len(boundaries) : boundaries[i].layerPath = <<StrLayer, StrLayer>>
    /\ \E i \in 1..Len(boundaries) :
          /\ boundaries[i].layerPath = <<NameZone>>
          /\ \E n \in Subtree(tree) \ {tree} :
                /\ n.type \notin {LAYR} \cup BoundaryFormTypes
                /\ \E m \in Subtree(n) : m.offset = boundaries[i].offset

\* the data chunk parseMapInfo decodes: its payload offset and declared
\* length (offset -1: none is decoded)
MapInfoChunk(d) ==
    LET h == readHeader(d, 12)
        dh == readHeader(d, readString(d, h.pos, 4).pos)
    IN  IF h.tag = FORM /\ dh.tag = DATA
        THEN [offset |-> dh.pos, length |-> dh.size]
        ELSE [offset |-> -1, length |-> 0]

\* C18: while it decodes the payload of a chunk, the parser reads no byte at
\* or behind the end of the chunk (payload offset + declared length) nor
\* behind the end of the buffer: neither in the vertex loops of polygons and
\* polylines nor in the field sequence of the global parameters.
C18_NoReadPastChunk ==
    phase = "open" =>
        /\ \A i \in 1..Len(Extracted) :
              LET r == Extracted[i]
                  chunkEnd == r.src + readUint32BE(disk.bytes, r.src - 4)
              IN  r.src # -1 =>
                    /\ decodeEnd(disk.bytes, r.type, r.src) <= chunkEnd
                    /\ decodeEnd(disk.bytes, r.type, r.src) <= Len(disk.bytes)
        /\ LET c == MapInfoChunk(disk.bytes)
           IN  c.offset # -1 =>
                 /\ parseMapInfoDataEnd(disk.bytes, c.offset) <= c.offset + c.length
                 /\ parseMapInfoDataEnd(disk.bytes, c.offset) <= Len(disk.bytes)

\* the values a reader can return
Numbers == [k : {"f", "d", "u"}, neg : BOOLEAN, mag : Nat, aux : Nat]

\* C19: a reader called where fewer bytes are left in the buffer than it
\* needs (4 for the big-endian length, the little-endian integer, the
\* little-endian float and a 4-character string) fails with a bounds error:
\* it returns no value.
C19_BoundsCheckedReads ==
    phase = "open" =>
        \A pos \in 0..Len(data) :
            pos + 4 > Len(data) =>
                /\ readUint32BE(data, pos) \notin Nat
                /\ readUint32LE(data, pos) \notin Numbers
                /\ readFloat32LE(data, pos) \notin Numbers
                /\ readString(data, pos, 4).s \notin Seq(0..255)

\* the chunks inside the boundary group at offset, header groups and the
\* data chunks outside of header groups, in file order
GroupChunks(d, offset) ==
    ChunksIn(d, offset + 12, offset + 8 + readUint32BE(d, offset + 4))
Headers(d, offset) ==
    SelectSeq(GroupChunks(d, offset),
              LAMBDA c : c[1] = IHDR /\ readString(d, c[2], 4).s = FORM)
DataChunks(d, offset, kind) ==
    LET hs == Range(Headers(d, offset))
    IN  SelectSeq(GroupChunks(d, offset),
                  LAMBDA c : /\ c[1] = DATA
                             /\ c[3] - 8 >= MinDataSize(kind)
                             /\ \A h \in hs : ~(h[2] < c[2] /\ c[2] < h[2] + h[3]))

\* C20: the name of a record is the name in the first header group of its
\* boundary group, at any depth, and its geometry is decoded from the first
\* data chunk of the group that has the minimum size of its type; later
\* header groups and data chunks of the group do not replace them.
C20_FirstHeaderFirstData ==
    (phase = "open" /\ Len(disk.groups) = Len(Extracted)) =>
        \A i \in 1..Len(Extracted) :
            LET r == Extracted[i]
                hs == Headers(disk.bytes, r.offset)
                ds == DataChunks(disk.bytes, r.offset, r.type)
            IN  /\ hs # <<>> =>
                      r.name = parseIHDR(disk.bytes, hs[1][2] + 12, hs[1][3] - 12)
                /\ ds # <<>> => r.src = ds[1][2] + 8

\* the deepest nesting of version groups tried
MaxWrap == 2
RECURSIVE Versions(_, _)
Versions(n, body) == IF n = 0 THEN body ELSE Version(Versions(n - 1, body))
\* the chunks inside the boundary group at offset, as bytes
GroupBody(d, offset) ==
    SubSeq(d, offset + 13, offset + 8 + readUint32BE(d, offset + 4))
\* the record of a file holding one boundary group with the chunks of body
\* inside n version groups
RecordOf(kind, n, body) ==
    parse(Form(PTAT, Form(TagOf(kind), Versions(n, body)))).boundaries[1]
ContentFields == RecordFields \ {"type", "layerPath", "offset"}
Content(r) == [f \in ContentFields |-> r[f]]

\* C21: for each of the four boundary types, putting the chunks of a boundary
\* group into one or more version groups does not change the record: name,
\* geometry, vertices, width, featherType and featherAmount are those that
\* are extracted when the chunks are direct children of the group.  (Groups
\* whose data chunk is read beyond its end are left out: what is decoded
\* from them depends on the bytes that follow the group.)
C21_VersionWrapper ==
    Opened =>
        \A i \in 1..Len(disk.groups) :
            LET g == disk.groups[i]
                inside == g.offset + 8 + readUint32BE(disk.bytes, g.offset + 4)
                              <= Len(disk.bytes)
            IN  (inside /\ g.data # "short") =>
                  \A n \in 0..MaxWrap :
                      Content(RecordOf(g.kind, n, GroupBody(disk.bytes, g.offset)))
                          = Content(boundaries[i])

\* C22: for every record type and every field name getFieldOffset accepts,
\* the offset it returns is the offset within the data chunk at which the
\* extractor decodes that field, and the four bytes writeFloat32LE writes
\* for a value are decoded by the extractor as that value (as a float32).
C22_PatchTable ==
    phase = "open" =>
        \A i \in 1..Len(Extracted) :
            LET r == Extracted[i]
                size == readUint32BE(disk.bytes, r.src - 4)
            IN  r.src # -1 =>
                  \A f \in NumberFields :
                      getFieldOffset(r.type, f) # -1 =>
                          LET at == decodeOffset(disk.bytes, r.type, r.src, f)
                          IN  /\ getFieldOffset(r.type, f) = at
                              /\ \A v \in EditValues :
                                    r.src + at + 4 <= Len(disk.bytes) =>
                                    decodeData(writeFloat32LE(disk.bytes, r.src + at, v),
                                               r.type, EmptyAcc(<<>>), r.src, size)[f]
                                        = Fround(v)

(***************************************************************************)
(* World Snapshot parser (WSParser).  Strings are the byte sequences       *)
(* TextDecoder is given; the files built below hold ASCII only, where      *)
(* decoding keeps every byte.                                              *)
(***************************************************************************)
OTNL == <<79, 84, 78, 76>>
WSNP == <<87, 83, 78, 80>>
NODE == <<78, 79, 68, 69>>
StrCell == <<47, 99, 101, 108, 108, 47>>
StrContainer == <<47, 99, 111, 110, 116, 97, 105, 110, 101, 114, 47>>
StrObjectBuilding == <<111, 98, 106, 101, 99, 116, 47, 98, 117, 105, 108, 100, 105, 110, 103, 47>>
StrObjectStatic == <<111, 98, 106, 101, 99, 116, 47, 115, 116, 97, 116, 105, 99, 47>>
StrObjectTangible == <<111, 98, 106, 101, 99, 116, 47, 116, 97, 110, 103, 105, 98, 108, 101, 47>>

\* String.prototype.includes and startsWith
includes(s, sub) ==
    \E i \in 1..(Len(s) - Len(sub) + 1) : SubSeq(s, i, i + Len(sub) - 1) = sub
startsWith(s, prefix) == Len(s) >= Len(prefix) /\ SubSeq(s, 1, Len(prefix)) = prefix

\* findChunk: the first position below data.length - 4 holding the tag, or -1
findChunk(d, tag) ==
    LET at == {i \in 0..(Len(d) - 5) : SubSeq(d, i + 1, i + 4) = tag}
    IN  IF at = {} THEN -1 ELSE CHOOSE i \in at : \A j \in at : i <= j

\* WSParser.readNullTerminatedString: the string and the cursor after it
wsReadNullTerminatedString(d, pos) ==
    LET nul == {q \in pos..(Len(d) - 1) : d[q + 1] = 0}
        stop == IF nul = {} THEN Max(pos, Len(d))
                ELSE CHOOSE q \in nul : \A q2 \in nul : q <= q2
    IN  [s |-> SubSeq(d, pos + 1, stop), pos |-> stop + 1]

\* the loop of parseTemplates; an iteration that starts at or past
\* data.length reads the empty string, pushes nothing and moves the cursor
\* by one, so the templates are complete when the cursor leaves the buffer
RECURSIVE parseTemplatesLoop(_, _, _, _, _)
parseTemplatesLoop(d, pos, end, count, templates) ==
    IF pos < end /\ Len(templates) < count /\ pos < Len(d)
    THEN LET str == wsReadNullTerminatedString(d, pos)
         IN  parseTemplatesLoop(d, str.pos, end, count,
                 IF str.s # <<>> THEN Append(templates, str.s) ELSE templates)
    ELSE templates

parseTemplates(d) ==
    LET otnlPos == findChunk(d, OTNL)
    IN  IF otnlPos = -1 THEN <<>>
        ELSE LET size == readUint32BE(d, otnlPos + 4)
                 count == readCountLE(d, otnlPos + 8)
             IN  parseTemplatesLoop(d, otnlPos + 12, otnlPos + 8 + size, count, <<>>)

categorize(templatePath) ==
    IF startsWith(templatePath, StrObjectBuilding) THEN "building"
    ELSE IF startsWith(templatePath, StrObjectStatic) THEN "static"
    ELSE IF startsWith(templatePath, StrObjectTangible) THEN "tangible"
    ELSE "other"

\* the signature 'DATA' 00 00 00 34 of a 52-byte data chunk at pos
nodeSignature(d, pos) == SubSeq(d, pos + 1, pos + 8) = DATA \o <<0, 0, 0, 52>>

\* the fields parseNodes decodes behind a signature at pos
nodeAt(d, pos, templates) ==
    LET templateIndex == readCountLE(d, pos + 16)
        templatePath == IF templateIndex < Len(templates)
                        THEN templates[templateIndex + 1] ELSE <<>>
    IN  [objectId |-> readUint32LE(d, pos + 8),
         parentId |-> readUint32LE(d, pos + 12),
         templateIndex |-> templateIndex,
         templatePath |-> templatePath,
         position |-> [x |-> readFloat32LE(d, pos + 40), y |-> readFloat32LE(d, pos + 44),
                       z |-> readFloat32LE(d, pos + 48)],
         rotation |-> [qw |-> readFloat32LE(d, pos + 24), qx |-> readFloat32LE(d, pos + 28),
                       qy |-> readFloat32LE(d, pos + 32), qz |-> readFloat32LE(d, pos + 36)],
         radius |-> readFloat32LE(d, pos + 52),
         category |-> categorize(templatePath)]

\* the three `continue` statements of parseNodes
skipped(node) ==
    \/ includes(node.templatePath, StrCell)
    \/ node.parentId # Zero
    \/ NumStrictEq(node.position.x, Zero) /\ NumStrictEq(node.position.z, Zero)

\* the scan loop of parseNodes: any byte that starts no signature moves the
\* cursor by 1, which brings it to the first signature at or behind pos; a
\* signature moves it by 60
RECURSIVE parseNodesLoop(_, _, _, _)
parseNodesLoop(d, pos, templates, objects) ==
    LET found == {q \in pos..(Len(d) - 61) : nodeSignature(d, q)}
    IN  IF found = {} THEN objects
        ELSE LET at == CHOOSE q \in found : \A q2 \in found : q <= q2
                 node == nodeAt(d, at, templates)
             IN  parseNodesLoop(d, at + 60, templates,
                     IF skipped(node) THEN objects ELSE Append(objects, node))

parseNodes(d, templates) == parseNodesLoop(d, 0, templates, <<>>)

IsBuilding(o) == o.category = "building"
IsStatic(o) == o.category = "static"
IsContainer(o) == o.category = "tangible" /\ includes(o.templatePath, StrContainer)

\* WSParser.parse
wsParse(d) ==
    LET templates == parseTemplates(d)
        objects == parseNodes(d, templates)
    IN  [templates |-> templates, objects |-> objects,
         buildings |-> SelectSeq(objects, IsBuilding),
         statics |-> SelectSeq(objects, IsStatic),
         containers |-> SelectSeq(objects, IsContainer)]

(***************************************************************************)
(* World snapshot files: the node forms, then the template name table.     *)
(***************************************************************************)
TemplateBuilding == <<111, 98, 106, 101, 99, 116, 47, 98, 117, 105, 108, 100, 105, 110, 103, 47, 98>>
TemplateStatic == <<111, 98, 106, 101, 99, 116, 47, 115, 116, 97, 116, 105, 99, 47, 115>>
TemplateContainer == <<111, 98, 106, 101, 99, 116, 47, 116, 97, 110, 103, 105, 98, 108, 101, 47, 99, 111, 110, 116, 97, 105, 110, 101, 114, 47, 99>>
TemplateCell == <<111, 98, 106, 101, 99, 116, 47, 99, 101, 108, 108, 47, 120>>
TemplateTangible == <<111, 98, 106, 101, 99, 116, 47, 116, 97, 110, 103, 105, 98, 108, 101, 47, 116>>
Templates ==
    <<TemplateBuilding, TemplateStatic, TemplateContainer, TemplateCell, TemplateTangible>>

RECURSIVE Strings(_)
Strings(names) ==
    IF names = <<>> THEN <<>> ELSE Head(names) \o <<0>> \o Strings(Tail(names))
Otnl(count, names) == Chunk(OTNL, U32(count) \o Strings(names))

\* a placement: identity rotation, height 5, radius 3
NodeData(objectId, parentId, templateIndex, x, z) ==
    U32(objectId) \o U32(parentId) \o U32(templateIndex) \o U32(0)
        \o F(1) \o F(0) \o F(0) \o F(0) \o F(x) \o F(5) \o F(z) \o F(3) \o U32(0)
NodeForm(objectId, c) ==
    Form(NODE, Form(<<48, 48, 48, 48>>,
                    Chunk(DATA, NodeData(objectId, c.parentId, c.templateIndex, c.x, c.z))))

\* parent 0 or 7; the five templates or an index behind the table; a
\* position at the origin, on the x axis, or off both axes
NodeChoices ==
    [parentId : {0, 7}, templateIndex : 0..Len(Templates), x : {0, 10}, z : {0, -20}]
        \ [parentId : {0, 7}, templateIndex : 0..Len(Templates), x : {0}, z : {-20}]
SecondChoices ==
    {c \in NodeChoices : c.x = 10 /\ c.z = -20 /\ c.templateIndex \in {0, 2}}

Snapshot(nodes, table) == Form(WSNP, Form(<<48, 48, 48, 49>>, nodes) \o table)

\* files that do not follow the layout: no bytes; no name table; a name
\* table declaring 4294967295 bytes and six names; one declaring two names of five; a node
\* chunk as the last 60 bytes
OddSnapshots ==
    LET node == NodeForm(1, [parentId |-> 0, templateIndex |-> 0, x |-> 10, z |-> -20])
        last60 == Chunk(DATA, NodeData(2, 0, 1, 10, -20))
    IN  {<<>>,
         Snapshot(node, <<>>),
         Snapshot(node, OTNL \o <<255, 255, 255, 255>> \o U32(6) \o Strings(Templates)),
         Snapshot(node, Otnl(2, Templates)),
         Otnl(5, Templates) \o node \o last60}

InitSnapshot ==
    /\ \E table \in {Otnl(Len(Templates), Templates)} :
          \/ \E a \in NodeChoices : disk = Plain(Snapshot(NodeForm(1, a), table))
          \/ \E a \in NodeChoices, b \in SecondChoices :
                disk = Plain(Snapshot(NodeForm(1, a) \o NodeForm(2, b), table))
          \/ \E bytes \in OddSnapshots : disk = Plain(bytes)
    /\ isEditable = TRUE
    /\ Closed

\* loadWorldSnapshot: the snapshot file found beside the terrain file is
\* parsed; disk holds the snapshot file
LoadWorldSnapshot ==
    /\ phase = "closed"
    /\ wsData' = <<wsParse(disk.bytes)>>
    /\ phase' = "snapshot"
    /\ UNCHANGED <<disk, data, boundaries, tree, mapInfo, isDirty, undoStack, redoStack,
                   edits, last, isEditable, saving>>

NextSnapshot == LoadWorldSnapshot
SpecSnapshot == InitSnapshot /\ [][NextSnapshot]_vars

\* the placement records of a snapshot file, kept or not
Placements(d, templates) ==
    {nodeAt(d, p, templates) : p \in {q \in 0..(Len(d) - 61) : nodeSignature(d, q)}}
Placeable(node) ==
    /\ ~includes(node.templatePath, StrCell)
    /\ ~(NumStrictEq(node.position.x, Zero) /\ NumStrictEq(node.position.z, Zero))

\* C23: a placement record with a non-zero parent id is kept in the object
\* list exactly if its template path is of the container family (and it is
\* neither a cell nor at the origin), and then it is in the containers list
\* if it is tangible; a record with parent id 0 is kept whatever its family
C23_ContainerException ==
    wsData # <<>> =>
        \A node \in Placements(disk.bytes, wsData[1].templates) :
            /\ node \in Range(wsData[1].objects) <=>
                   /\ Placeable(node)
                   /\ node.parentId = Zero \/ includes(node.templatePath, StrContainer)
            /\ node \in Range(wsData[1].containers) <=>
                   /\ node \in Range(wsData[1].objects)
                   /\ IsContainer(node)

(***************************************************************************)
(* The number of iterations the loops of the three parsers perform.  Each  *)
(* operator follows the loop it counts; an iteration that starts at or     *)
(* past data.length reads an empty tag and the length 0, and moves the     *)
(* cursor by `by` bytes (the header the reader still steps over), so the   *)
(* iterations from there to the declared end are counted in one step.      *)
(* A declared length of PosCap or more counts as PosCap, so that such a    *)
(* count is a lower bound of the iterations performed.                     *)
(***************************************************************************)
idle(pos, end, by) == IF pos < end - 8 THEN (end - 8 - pos + by - 1) \div by ELSE 0

\* the loop of parseIHDR
RECURSIVE parseIHDRSteps(_, _, _)
parseIHDRSteps(d, pos, end) ==
    IF ~scanning(d, pos, end) THEN idle(pos, end, 4)
    ELSE LET h == readHeader(d, pos)
         IN  IF h.tag = FORM
             THEN 1 + parseIHDRSteps(d, readString(d, h.pos, 4).pos + h.size - 4, end)
             ELSE IF h.tag = DATA /\ h.size > 4 THEN 1
             ELSE 1 + parseIHDRSteps(d, h.pos + h.size, end)

\* the scan loop of parseBCIR, parseBREC, parseBPOL, parseBPLN and their Inner
\* twins, the loops of the calls made from it, and the vertex loop
RECURSIVE parseBoundarySteps(_, _, _, _)
parseBoundarySteps(d, kind, pos, end) ==
    IF ~scanning(d, pos, end) THEN idle(pos, end, 4)
    ELSE LET h == readHeader(d, pos)
             chunkEnd == h.pos + h.size
             ft == readString(d, h.pos, 4)
             within ==
                 IF h.tag = FORM
                 THEN IF ft.s = IHDR
                      THEN parseIHDRSteps(d, ft.pos, ft.pos + h.size - 4)
                      ELSE parseBoundarySteps(d, kind, ft.pos, ft.pos + h.size - 4)
                 ELSE IF /\ h.tag = DATA
                         /\ kind \in {"polygon", "polyline"}
                         /\ h.size >= MinDataSize(kind)
                 THEN readCountLE(d, h.pos)
                 ELSE 0
         IN  1 + within + parseBoundarySteps(d, kind, chunkEnd, end)

\* the two loops of extractLayerName
RECURSIVE layerNameInIHDRSteps(_, _, _)
layerNameInIHDRSteps(d, ihdrPos, ihdrEnd) ==
    IF ~scanning(d, ihdrPos, ihdrEnd) THEN idle(ihdrPos, ihdrEnd, 8)
    ELSE LET innerSize == readUint32BE(d, ihdrPos + 4)
         IN  IF layerNameInIHDR(d, ihdrPos, ihdrPos + 9 + innerSize) # <<>> THEN 1
             ELSE 1 + layerNameInIHDRSteps(d, ihdrPos + 8 + innerSize, ihdrEnd)

RECURSIVE extractLayerNameSteps(_, _, _)
extractLayerNameSteps(d, pos, end) ==
    IF ~scanning(d, pos, end) THEN idle(pos, end, 8)
    ELSE LET tag == readString(d, pos, 4).s
             chunkSize == readUint32BE(d, pos + 4)
             header == tag = FORM /\ readString(d, pos + 8, 4).s = IHDR
             named == header /\ layerNameInIHDR(d, pos + 12, pos + 8 + chunkSize) # <<>>
         IN  1 + (IF header THEN layerNameInIHDRSteps(d, pos + 12, pos + 8 + chunkSize)
                  ELSE 0)
               + (IF named THEN 0 ELSE extractLayerNameSteps(d, pos + 8 + chunkSize, end))

\* the loop of parseContent and the loops of the calls made from it
RECURSIVE parseContentSteps(_, _, _)
parseContentSteps(d, pos, end) ==
    IF ~scanning(d, pos, end) THEN idle(pos, end, 8)
    ELSE LET h == readHeader(d, pos)
             ft == readString(d, h.pos, 4)
             within ==
                 IF h.tag # FORM THEN 0
                 ELSE IF ft.s \in BoundaryFormTypes
                 THEN parseBoundarySteps(d, KindOf(ft.s), ft.pos, ft.pos + h.size - 4)
                 ELSE IF ft.s = LAYR
                 THEN extractLayerNameSteps(d, ft.pos, ft.pos + h.size - 4)
                        + parseContentSteps(d, ft.pos, ft.pos + h.size - 4)
                 ELSE parseContentSteps(d, ft.pos, ft.pos + h.size - 4)
         IN  1 + within + parseContentSteps(d, pos + 8 + h.size, end)

\* TRNParser.parse of a buffer it accepts
parseSteps(d) ==
    LET h == readHeader(d, 0)
        formType == readString(d, h.pos, 4)
    IN  parseContentSteps(d, formType.pos, formType.pos + h.size - 4)

\* the loop of parseFORM, with the loops of the children
RECURSIVE parseFORMSteps(_, _, _)
parseFORMSteps(d, pos, contentEnd) ==
    IF ~scanning(d, pos, contentEnd) THEN idle(pos, contentEnd, 1)
    ELSE IF ~isValidTag(readString(d, pos, 4).s)
    THEN 1 + parseFORMSteps(d, pos + 1, contentEnd)
    ELSE LET h == readHeader(d, pos)
             formType == readString(d, h.pos, 4)
         IN  1 + (IF h.tag = FORM
                  THEN parseFORMSteps(d, formType.pos, pos + 8 + h.size) ELSE 0)
               + parseFORMSteps(d, pos + 8 + h.size, contentEnd)

\* TRNTreeParser.parse
treeParseSteps(d) ==
    LET h == readHeader(d, 0)
        formType == readString(d, h.pos, 4)
    IN  IF h.tag = FORM THEN parseFORMSteps(d, formType.pos, 8 + h.size) ELSE 0

\* the loop of parseTemplates with n names pushed so far
RECURSIVE parseTemplatesSteps(_, _, _, _, _)
parseTemplatesSteps(d, pos, end, count, n) ==
    IF ~(pos < end /\ n < count) THEN 0
    ELSE IF pos >= Len(d) THEN end - pos
    ELSE LET str == wsReadNullTerminatedString(d, pos)
         IN  1 + parseTemplatesSteps(d, str.pos, end, count,
                                     IF str.s # <<>> THEN n + 1 ELSE n)

\* the loop of parseNodes
RECURSIVE parseNodesSteps(_, _)
parseNodesSteps(d, pos) ==
    LET found == {q \in pos..(Len(d) - 61) : nodeSignature(d, q)}
    IN  IF found = {} THEN Max(0, Len(d) - 60 - pos)
        ELSE LET at == CHOOSE q \in found : \A q2 \in found : q <= q2
             IN  (at - pos) + 1 + parseNodesSteps(d, at + 60)

\* WSParser.parse
wsParseSteps(d) ==
    LET otnlPos == findChunk(d, OTNL)
    IN  parseNodesSteps(d, 0)
          + (IF otnlPos = -1 THEN 0
             ELSE parseTemplatesSteps(d, otnlPos + 12,
                                      otnlPos + 8 + readUint32BE(d, otnlPos + 4),
                                      readCountLE(d, otnlPos + 8), 0))

\* terrain files that declare more than they hold: a top-level group of
\* 4294967295 bytes; a polygon of 4294967295 vertices in a data chunk of 12
\* bytes; a layer group of 65535 bytes
Oversized ==
    <<FORM \o <<255, 255, 255, 255>> \o PTAT \o Form(BCIR, Chunk(DATA, Circle1)),
      Form(PTAT, Form(BPOL, Chunk(DATA, <<255, 255, 255, 255>> \o F(1) \o F(2)))),
      Form(PTAT, FORM \o <<0, 0, 255, 255>> \o LAYR \o Header(1, NameA)
                    \o Form(BREC, Chunk(DATA, Rect2)))>>

InitOversized ==
    /\ \E files \in {Oversized} : \E bytes \in Range(files) : disk = Plain(bytes)
    /\ isEditable = TRUE
    /\ Closed

\* opening every prefix of every oversized file
SpecOversized == InitOversized /\ [][NextPrefixes]_vars

\* C24: each parser performs at most as many scan-loop and vertex-loop
\* iterations as the buffer has bytes, whatever lengths and vertex counts the
\* buffer declares
C24_BoundedParse ==
    /\ phase = "open" =>
          /\ parseSteps(disk.bytes) <= Len(disk.bytes)
          /\ treeParseSteps(disk.bytes) <= Len(disk.bytes)
    /\ phase = "snapshot" => wsParseSteps(disk.bytes) <= Len(disk.bytes)

(***************************************************************************)
(* The session of one document: edits from the webview, saves, reverts,    *)
(* and another program that rewrites the file.  saveCustomDocument hands   *)
(* the array _data itself to workspace.fs.writeFile and awaits; the write  *)
(* may take the bytes when it is called or when it is carried out, and     *)
(* applyEdit changes that array in place until revert installs a new one.  *)
(* An entry of saving is [handed, detached]: the bytes of the array at the *)
(* call, and <<>> while the array is still _data, else <<its last bytes>>. *)
(***************************************************************************)
MaxSaving == 1

\* a field of every record type, and one of no offset table
SessionFields == {"featherAmount", "name"}
SessionFiles ==
    <<File(<<Group("circle", Chunk(DATA, Circle1), "ok")>>),
      File(<<Group("rectangle", Header(1, NameA) \o Chunk(DATA, Rect1), "ok")>>)>>
\* what the other program writes: a file of another format
Replacements == <<Plain(Form(JUNK, Chunk(DATA, Circle2)))>>

InitSession ==
    /\ \E files \in {SessionFiles} : disk \in Range(files)
    /\ isEditable \in BOOLEAN
    /\ Closed

\* a call that is no applyEdit: nothing written, onDidChange fired or not
Done(op, ret, fired) ==
    [NoCall EXCEPT !.op = op, !.ret = ret, !.fired = fired, !.before = Document]

\* the flag is left as it is
markSavedNot(doc) == doc
\* TRNDocument.markSaved
markSaved(doc) == [doc EXCEPT !.isDirty = FALSE]

\* saveCustomDocument up to its await: getData() is handed to writeFile
SaveCustomDocument ==
    /\ phase = "open"
    /\ Len(saving) < MaxSaving
    /\ saving' = Append(saving, [handed |-> data, detached |-> <<>>])
    /\ last' = Done("getData", "true", FALSE)
    /\ UNCHANGED <<phase, disk, data, boundaries, tree, mapInfo, isDirty, undoStack,
                   redoStack, edits, wsData, isEditable>>

\* the write of the oldest save is carried out and saveCustomDocument goes
\* on behind its await: document.markSaved()
WriteFileDone ==
    /\ phase = "open"
    /\ saving # <<>>
    /\ LET s == Head(saving)
           array == IF s.detached = <<>> THEN data ELSE s.detached[1]
       IN  \E written \in {s.handed, array} : disk' = Plain(written)
    /\ saving' = Tail(saving)
    /\ isDirty' = markSaved(Document).isDirty
    /\ last' = Done("markSaved", "true", FALSE)
    /\ UNCHANGED <<phase, data, boundaries, tree, mapInfo, undoStack, redoStack, edits,
                   wsData, isEditable>>

\* revertCustomDocument: document.revert(the bytes of the file); parseData
\* throws behind the assignment to _data when TRNParser.parse throws
Revert ==
    /\ phase = "open"
    /\ data' = disk.bytes
    /\ LET doc == parse(disk.bytes)
       IN  IF doc.ok
           THEN /\ boundaries' = Records(doc.boundaries)
                /\ mapInfo' = doc.mapInfo
                /\ tree' = treeParse(disk.bytes)
                /\ isDirty' = FALSE
                /\ last' = Done("revert", "true", TRUE)
           ELSE /\ UNCHANGED <<boundaries, mapInfo, tree, isDirty>>
                /\ last' = Done("revert", "throw", FALSE)
    /\ saving' = [i \in 1..Len(saving) |->
                     IF saving[i].detached = <<>>
                     THEN [saving[i] EXCEPT !.detached = <<data>>] ELSE saving[i]]
    /\ UNCHANGED <<phase, disk, undoStack, redoStack, edits, wsData, isEditable>>

\* another program replaces the file
ExternalWrite(file) ==
    /\ phase = "open"
    /\ disk # file
    /\ disk' = file
    /\ UNCHANGED <<phase, data, boundaries, tree, mapInfo, isDirty, undoStack, redoStack,
                   edits, last, wsData, isEditable, saving>>

NextSession ==
    \/ Open
    \/ \E i \in 0..Len(boundaries), f \in SessionFields, v \in EditValues :
          HandleBoundaryEdit(i, f, v)
    \/ SaveCustomDocument
    \/ WriteFileDone
    \/ Revert
    \/ \E files \in {Replacements} : \E file \in Range(files) : ExternalWrite(file)

SpecSession == InitSession /\ [][NextSession]_vars

EditCalls == {"applyEdit", "handleBoundaryEdit", "undo", "redo"}

C26_ApplyEditTerminates ==
    last.op \in EditCalls => last.ret \in {"true", "false"}

\* C27: a revert that fails leaves the buffer, the records, the tree, the
\* parameters and the modified flag as they were
C27_FailedRevertAtomic ==
    [][(last'.op = "revert" /\ last'.ret = "throw")
          => UNCHANGED <<data, boundaries, tree, mapInfo, isDirty>>]_vars

\* C28: when a save completes, the document is marked modified unless the
\* bytes handed to the write are the bytes of the buffer
C28_EditDuringSave ==
    [][Len(saving') < Len(saving) => (isDirty' \/ Head(saving).handed = data')]_vars

\* C30: an editBoundary message to a read-only document changes neither the
\* buffer nor a record and produces no edit event
C30_ReadOnly ==
    [][(~isEditable /\ edits' # edits) => UNCHANGED <<data, boundaries, undoStack>>]_vars

PayloadFields ==
    {"centerX", "centerZ", "radius", "x1", "z1", "x2", "z2", "featherAmount", "width"}

\* C29: in every state of a document, each field the tree holds in the
\* payload bag of a boundary node is the field of the boundary record with
\* the offset of that node
C29_TreeDataMatchesRecords ==
    phase = "open" =>
        \A n \in Range(treeBoundaries(tree)) :
            \A i \in 1..Len(boundaries) :
                boundaries[i].offset = n.offset =>
                    \A f \in PayloadFields :
                        n.data[f] # Absent => n.data[f] = boundaries[i][f]

====
